---------------------------- MODULE Spec2Model ----------------------------
(***************************************************************************)
(* Model of package-version-check-mcp.                                     *)
(*                                                                         *)
(* Part 1: the Version model of utils/version_parser.py.  A Python str is  *)
(* a sequence of one-character strings; None is the empty sequence (every  *)
(* regex group that takes part in a match is non-empty, and every tuple    *)
(* the code builds has two elements, so the empty sequence is free).       *)
(***************************************************************************)
EXTENDS Integers, Sequences, FiniteSets, TLC

None == <<>>

\* ------------------------------------------------------------------------
\* Characters: the ASCII subset the model draws its inputs from.
\* ------------------------------------------------------------------------
DigitChars == <<"0", "1", "2", "3", "4", "5", "6", "7", "8", "9">>
LowerChars == <<"a", "b", "c", "d", "e", "f", "g", "h", "i", "j", "k", "l", "m",
                "n", "o", "p", "q", "r", "s", "t", "u", "v", "w", "x", "y", "z">>
UpperChars == <<"A", "B", "C", "D", "E", "F", "G", "H", "I", "J", "K", "L", "M",
                "N", "O", "P", "Q", "R", "S", "T", "U", "V", "W", "X", "Y", "Z">>

Range(f) == {f[k] : k \in DOMAIN f}

IndexOf(seq, c) == CHOOSE k \in DOMAIN seq : seq[k] = c

IsDigit(c) == c \in Range(DigitChars)
IsLower(c) == c \in Range(LowerChars)
IsUpper(c) == c \in Range(UpperChars)
\* [._-]
IsSep(c) == c \in {".", "_", "-"}
\* [a-z0-9] under re.IGNORECASE
IsAlnum(c) == IsDigit(c) \/ IsLower(c) \/ IsUpper(c)
\* \s
IsSpace(c) == c \in {" ", "\t", "\n", "\r", "\f"}

\* str.lower() of one character
Lower(c) == IF IsUpper(c) THEN LowerChars[IndexOf(UpperChars, c)] ELSE c

LowerStr(s) == [k \in DOMAIN s |-> Lower(s[k])]

\* ord(c): Python compares str values by code point
Ord(c) ==
    IF IsDigit(c) THEN 47 + IndexOf(DigitChars, c)
    ELSE IF IsUpper(c) THEN 64 + IndexOf(UpperChars, c)
    ELSE IF IsLower(c) THEN 96 + IndexOf(LowerChars, c)
    ELSE CASE c = "\t" -> 9  [] c = "\n" -> 10 [] c = "\f" -> 12 [] c = "\r" -> 13
           [] c = " "  -> 32 [] c = "!"  -> 33 [] c = "+"  -> 43 [] c = "-"  -> 45
           [] c = "."  -> 46 [] c = "_"  -> 95

\* s[i:j] with 1-based inclusive-exclusive positions i..j-1
Slice(s, i, j) == [k \in 1..(j - i) |-> s[i + k - 1]]

\* int(digits) for a non-empty digit string
RECURSIVE int(_)
int(d) ==
    IF Len(d) = 0 THEN 0
    ELSE 10 * int(Slice(d, 1, Len(d))) + (IndexOf(DigitChars, d[Len(d)]) - 1)

\* str(n) for n >= 0
RECURSIVE str(_)
str(n) ==
    IF n < 10 THEN <<DigitChars[n + 1]>>
    ELSE Append(str(n \div 10), DigitChars[(n % 10) + 1])

\* ------------------------------------------------------------------------
\* VERSION_PATTERN, matched by Version._regex.fullmatch: a backtracking
\* matcher.  Every stage tries its alternatives in the regex's priority
\* order and keeps the first one whose continuation reaches the end of the
\* string; a possessive quantifier (?+, *+) contributes one alternative only.
\* ------------------------------------------------------------------------
NoMatch == [ok |-> FALSE]

\* number of characters from position i on that satisfy the class
RECURSIVE DigitRun(_, _)
DigitRun(s, i) == IF i <= Len(s) /\ IsDigit(s[i]) THEN 1 + DigitRun(s, i + 1) ELSE 0

RECURSIVE AlnumRun(_, _)
AlnumRun(s, i) == IF i <= Len(s) /\ IsAlnum(s[i]) THEN 1 + AlnumRun(s, i + 1) ELSE 0

RECURSIVE SpaceRun(_, _)
SpaceRun(s, i) == IF i <= Len(s) /\ IsSpace(s[i]) THEN 1 + SpaceRun(s, i + 1) ELSE 0

\* a literal of the pattern at position i, letters compared case-insensitively
LitAt(s, i, lit) ==
    /\ i + Len(lit) - 1 <= Len(s)
    /\ \A k \in 1..Len(lit) : Lower(s[i + k - 1]) = lit[k]

\* [._-]?+ : the position after an optional separator, taken possessively
SkipSep(s, i) == IF i <= Len(s) /\ IsSep(s[i]) THEN i + 1 ELSE i

\* [._-]? : with the separator first, then without it
SepEnds(s, i) == IF i <= Len(s) /\ IsSep(s[i]) THEN <<i + 1, i>> ELSE <<i>>

\* ([0-9]+)? at position i: the ends of the alternatives, longest number
\* first, the absent number (end = i) last
NumEnds(s, i) == LET d == DigitRun(s, i) IN [k \in 1..(d + 1) |-> i + d + 1 - k]

\* the first alternative of cands whose continuation F succeeds
RECURSIVE FirstFrom(_, _, _)
FirstFrom(F(_), cands, k) ==
    IF k > Len(cands) THEN NoMatch
    ELSE LET r == F(cands[k]) IN IF r.ok THEN r ELSE FirstFrom(F, cands, k + 1)

FirstMatch(F(_), cands) == FirstFrom(F, cands, 1)

\* \s* and the end of the string
MatchTail(s, i, g) == IF i + SpaceRun(s, i) = Len(s) + 1 THEN g ELSE NoMatch

\* (?:[._-][a-z0-9]+)*+
RECURSIVE VariantGroupsEnd(_, _)
VariantGroupsEnd(s, i) ==
    IF i <= Len(s) /\ IsSep(s[i]) /\ AlnumRun(s, i + 1) >= 1
    THEN VariantGroupsEnd(s, i + 1 + AlnumRun(s, i + 1))
    ELSE i

\* (?P<variant>-[a-z0-9]+(?:[._-][a-z0-9]+)*+)?
VariantEnds(s, i) ==
    IF i <= Len(s) /\ s[i] = "-"
    THEN LET r == AlnumRun(s, i + 1)
         IN  [k \in 1..(r + 1) |->
                IF k <= r THEN VariantGroupsEnd(s, i + 1 + (r + 1 - k)) ELSE i]
    ELSE <<i>>

MatchVariant(s, i, g) ==
    FirstMatch(LAMBDA e : MatchTail(s, e, [g EXCEPT !.variant = Slice(s, i, e)]),
               VariantEnds(s, i))

\* (?P<dev>[._-]?+(?P<dev_l>dev)[._-]?+(?P<dev_n>[0-9]+)?)?
DevAlts(s, i) ==
    LET a == SkipSep(s, i)
        lit == <<"d", "e", "v">>
    IN  IF LitAt(s, a, lit)
        THEN LET c == SkipSep(s, a + 3)
                 ends == NumEnds(s, c)
             IN  [k \in 1..(Len(ends) + 1) |->
                    IF k <= Len(ends)
                    THEN [end |-> ends[k], dev_l |-> Slice(s, a, a + 3),
                          dev_n |-> Slice(s, c, ends[k])]
                    ELSE [end |-> i, dev_l |-> None, dev_n |-> None]]
        ELSE <<[end |-> i, dev_l |-> None, dev_n |-> None]>>

MatchDev(s, i, g) ==
    FirstMatch(LAMBDA c : MatchVariant(s, c.end,
                   [g EXCEPT !.dev_l = c.dev_l, !.dev_n = c.dev_n]),
               DevAlts(s, i))

\* (?P<post>(?:-(?P<post_n1>[0-9]+))|(?:[._-]?(?P<post_l>post|rev|r)[._-]?(?P<post_n2>[0-9]+)?))?
PostLetters == << <<"p", "o", "s", "t">>, <<"r", "e", "v">>, <<"r">> >>

NoPost(i) == [end |-> i, post_n1 |-> None, post_l |-> None, post_n2 |-> None]

\* first branch: -N, longest N first
PostAlts1(s, i) ==
    IF i <= Len(s) /\ s[i] = "-"
    THEN LET d == DigitRun(s, i + 1)
         IN  [k \in 1..d |->
                [end |-> i + 1 + (d + 1 - k), post_n1 |-> Slice(s, i + 1, i + 1 + (d + 1 - k)),
                 post_l |-> None, post_n2 |-> None]]
    ELSE <<>>

\* second branch from the position a after its first [._-]?, for one spelling
PostAlts2Letter(s, a, lit) ==
    IF LitAt(s, a, lit)
    THEN LET b == a + Len(lit)
             one(c) == LET ends == NumEnds(s, c)
                       IN  [k \in 1..Len(ends) |->
                              [end |-> ends[k], post_n1 |-> None,
                               post_l |-> Slice(s, a, b), post_n2 |-> Slice(s, c, ends[k])]]
             seps == SepEnds(s, b)
         IN  IF Len(seps) = 2 THEN one(seps[1]) \o one(seps[2]) ELSE one(seps[1])
    ELSE <<>>

PostAlts2From(s, a) ==
    PostAlts2Letter(s, a, PostLetters[1]) \o PostAlts2Letter(s, a, PostLetters[2])
        \o PostAlts2Letter(s, a, PostLetters[3])

PostAlts2(s, i) ==
    LET seps == SepEnds(s, i)
    IN  IF Len(seps) = 2 THEN PostAlts2From(s, seps[1]) \o PostAlts2From(s, seps[2])
        ELSE PostAlts2From(s, seps[1])

PostAlts(s, i) == PostAlts1(s, i) \o PostAlts2(s, i) \o <<NoPost(i)>>

MatchPost(s, i, g) ==
    FirstMatch(LAMBDA c : MatchDev(s, c.end,
                   [g EXCEPT !.post_n1 = c.post_n1, !.post_l = c.post_l, !.post_n2 = c.post_n2]),
               PostAlts(s, i))

\* (?P<pre>[._-]?+(?P<pre_l>alpha|a|beta|b|preview|pre|c|rc|milestone|m)[._-]?+(?P<pre_n>[0-9]+)?)?
PreLetters ==
    << <<"a", "l", "p", "h", "a">>, <<"a">>, <<"b", "e", "t", "a">>, <<"b">>,
       <<"p", "r", "e", "v", "i", "e", "w">>, <<"p", "r", "e">>, <<"c">>, <<"r", "c">>,
       <<"m", "i", "l", "e", "s", "t", "o", "n", "e">>, <<"m">> >>

NoPre(i) == [end |-> i, pre_l |-> None, pre_n |-> None]

PreAltsLetter(s, a, lit) ==
    IF LitAt(s, a, lit)
    THEN LET b == a + Len(lit)
             c == SkipSep(s, b)
             ends == NumEnds(s, c)
         IN  [k \in 1..Len(ends) |->
                [end |-> ends[k], pre_l |-> Slice(s, a, b), pre_n |-> Slice(s, c, ends[k])]]
    ELSE <<>>

RECURSIVE PreAltsFrom(_, _, _)
PreAltsFrom(s, a, n) ==
    IF n > Len(PreLetters) THEN <<>>
    ELSE PreAltsLetter(s, a, PreLetters[n]) \o PreAltsFrom(s, a, n + 1)

PreAlts(s, i) == PreAltsFrom(s, SkipSep(s, i), 1) \o <<NoPre(i)>>

MatchPre(s, i, g) ==
    FirstMatch(LAMBDA c : MatchPost(s, c.end, [g EXCEPT !.pre_l = c.pre_l, !.pre_n = c.pre_n]),
               PreAlts(s, i))

\* (?:\.[0-9]+)*+
RECURSIVE ReleaseGroupsEnd(_, _)
ReleaseGroupsEnd(s, i) ==
    IF i <= Len(s) /\ s[i] = "." /\ DigitRun(s, i + 1) >= 1
    THEN ReleaseGroupsEnd(s, i + 1 + DigitRun(s, i + 1))
    ELSE i

\* (?P<release>[0-9]+(?:\.[0-9]+)*+)
ReleaseEnds(s, i) ==
    LET d == DigitRun(s, i)
    IN  [k \in 1..d |-> ReleaseGroupsEnd(s, i + (d + 1 - k))]

NoGroups ==
    [ok |-> TRUE, release |-> None, pre_l |-> None, pre_n |-> None, post_n1 |-> None,
     post_l |-> None, post_n2 |-> None, dev_l |-> None, dev_n |-> None, variant |-> None]

MatchRelease(s, i) ==
    FirstMatch(LAMBDA e : MatchPre(s, e, [NoGroups EXCEPT !.release = Slice(s, i, e)]),
               ReleaseEnds(s, i))

\* v?+
SkipV(s, i) == IF i <= Len(s) /\ Lower(s[i]) = "v" THEN i + 1 ELSE i

\* re.compile(r"\s*" + VERSION_PATTERN + r"\s*", re.VERBOSE | re.IGNORECASE).fullmatch
fullmatch(s) ==
    LET w == SpaceRun(s, 1)
    IN  FirstMatch(LAMBDA i : MatchRelease(s, SkipV(s, i)), [k \in 1..(w + 1) |-> w + 2 - k])

\* ------------------------------------------------------------------------
\* Version
\* ------------------------------------------------------------------------
\* mutant of _LETTER_NORMALIZATION: no entry for "preview"
LetterNormalizationNoPreview ==
    << <<<<"a", "l", "p", "h", "a">>, <<"a">>>>,
       <<<<"b", "e", "t", "a">>, <<"b">>>>,
       <<<<"c">>, <<"r", "c">>>>,
       <<<<"p", "r", "e">>, <<"r", "c">>>>,
       <<<<"r", "e", "v">>, <<"p", "o", "s", "t">>>>,
       <<<<"r">>, <<"p", "o", "s", "t">>>>,
       <<<<"m", "i", "l", "e", "s", "t", "o", "n", "e">>, <<"m">>>>,
       <<<<"m">>, <<"m">>>> >>

\* the dict: a sequence of <<key, value>> pairs
_LETTER_NORMALIZATION ==
    << <<<<"a", "l", "p", "h", "a">>, <<"a">>>>,
       <<<<"b", "e", "t", "a">>, <<"b">>>>,
       <<<<"c">>, <<"r", "c">>>>,
       <<<<"p", "r", "e">>, <<"r", "c">>>>,
       <<<<"p", "r", "e", "v", "i", "e", "w">>, <<"r", "c">>>>,
       <<<<"r", "e", "v">>, <<"p", "o", "s", "t">>>>,
       <<<<"r">>, <<"p", "o", "s", "t">>>>,
       <<<<"m", "i", "l", "e", "s", "t", "o", "n", "e">>, <<"m">>>>,
       <<<<"m">>, <<"m">>>> >>

\* d.get(key, default)
DictGet(d, key, default) ==
    IF \E k \in DOMAIN d : d[k][1] = key
    THEN d[CHOOSE k \in DOMAIN d : d[k][1] = key][2]
    ELSE default

\* _parse_letter_version(letter, number): <<letter, int>> or None
_parse_letter_version(letter, number) ==
    IF letter # None
    THEN LET l == LowerStr(letter)
         IN  <<DictGet(_LETTER_NORMALIZATION, l, l), IF number # None THEN int(number) ELSE 0>>
    ELSE IF number # None
    THEN <<<<"p", "o", "s", "t">>, int(number)>>
    ELSE None

\* match.group("release").split(".") mapped through int
RECURSIVE SplitRelease(_, _)
SplitRelease(s, i) ==
    LET d == DigitRun(s, i)
    IN  IF i + d > Len(s) THEN <<int(Slice(s, i, i + d))>>
        ELSE <<int(Slice(s, i, i + d))>> \o SplitRelease(s, i + d + 1)

\* the exception Version.__init__ raises, in place of the object
InvalidVersion == [raised |-> TRUE]

\* Version.__init__(version): the new object's slots, or InvalidVersion
Version(version) ==
    LET match == fullmatch(version)
    IN  IF ~match.ok THEN InvalidVersion
        ELSE [raised |-> FALSE,
              _release |-> SplitRelease(match.release, 1),
              _pre |-> _parse_letter_version(match.pre_l, match.pre_n),
              _post |-> _parse_letter_version(match.post_l,
                           IF match.post_n1 # None THEN match.post_n1 ELSE match.post_n2),
              _dev |-> _parse_letter_version(match.dev_l, match.dev_n),
              _variant |-> IF match.variant # None /\ match.variant[1] = "-"
                           THEN Tail(match.variant) ELSE match.variant,
              _key_cache |-> None]

\* the sentinels of _structures
Infinity == <<"Infinity">>
NegativeInfinity == <<"-Infinity">>

\* release[:i] after `while i and release[i - 1] == 0: i -= 1`
RECURSIVE TrimTrailingZeros(_)
TrimTrailingZeros(release) ==
    IF Len(release) > 0 /\ release[Len(release)] = 0
    THEN TrimTrailingZeros(SubSeq(release, 1, Len(release) - 1))
    ELSE release

\* mutants of _cmpkey: no special case for a dev-only version; the release
\* left untrimmed; an absent dev put lowest; an absent variant put lowest
CmpkeyNoDevTrick(release, pre, post, dev, variant) ==
    << TrimTrailingZeros(release),
       IF pre = None THEN Infinity ELSE pre,
       IF post = None THEN NegativeInfinity ELSE post,
       IF dev = None THEN Infinity ELSE dev,
       IF variant = None THEN Infinity ELSE variant >>

CmpkeyUntrimmed(release, pre, post, dev, variant) ==
    << release,
       IF pre = None /\ post = None /\ dev # None /\ variant = None THEN NegativeInfinity
       ELSE IF pre = None THEN Infinity
       ELSE pre,
       IF post = None THEN NegativeInfinity ELSE post,
       IF dev = None THEN Infinity ELSE dev,
       IF variant = None THEN Infinity ELSE variant >>

CmpkeyDevLow(release, pre, post, dev, variant) ==
    << TrimTrailingZeros(release),
       IF pre = None /\ post = None /\ dev # None /\ variant = None THEN NegativeInfinity
       ELSE IF pre = None THEN Infinity
       ELSE pre,
       IF post = None THEN NegativeInfinity ELSE post,
       IF dev = None THEN NegativeInfinity ELSE dev,
       IF variant = None THEN Infinity ELSE variant >>

CmpkeyVariantLow(release, pre, post, dev, variant) ==
    << TrimTrailingZeros(release),
       IF pre = None /\ post = None /\ dev # None /\ variant = None THEN NegativeInfinity
       ELSE IF pre = None THEN Infinity
       ELSE pre,
       IF post = None THEN NegativeInfinity ELSE post,
       IF dev = None THEN Infinity ELSE dev,
       IF variant = None THEN NegativeInfinity ELSE variant >>

\* _cmpkey(release, pre, post, dev, variant)
_cmpkey(release, pre, post, dev, variant) ==
    << TrimTrailingZeros(release),
       IF pre = None /\ post = None /\ dev # None /\ variant = None THEN NegativeInfinity
       ELSE IF pre = None THEN Infinity
       ELSE pre,
       IF post = None THEN NegativeInfinity ELSE post,
       IF dev = None THEN Infinity ELSE dev,
       IF variant = None THEN Infinity ELSE variant >>

\* Version._key: the value the property returns (the cache when it is set)
_key(self) ==
    IF self._key_cache = None
    THEN _cmpkey(self._release, self._pre, self._post, self._dev, self._variant)
    ELSE self._key_cache

\* the release, pre, post, dev and variant properties
pre(self) == self._pre
\* (an int | None result is a sequence of at most one integer)
post(self) == IF self._post # None THEN <<self._post[2]>> ELSE None
dev(self) == IF self._dev # None THEN <<self._dev[2]>> ELSE None
variant(self) == self._variant
release(self) == self._release

\* ".".join(map(str, release))
RECURSIVE JoinDots(_)
JoinDots(rel) ==
    IF Len(rel) = 0 THEN <<>>
    ELSE IF Len(rel) = 1 THEN str(rel[1])
    ELSE str(rel[1]) \o <<".">> \o JoinDots(Tail(rel))

\* mutant: the variant appended without its "-"
StrVariantNoDash(self) ==
    JoinDots(release(self))
    \o (IF pre(self) # None THEN pre(self)[1] \o str(pre(self)[2]) ELSE <<>>)
    \o (IF post(self) # None THEN <<".", "p", "o", "s", "t">> \o str(post(self)[1]) ELSE <<>>)
    \o (IF dev(self) # None THEN <<".", "d", "e", "v">> \o str(dev(self)[1]) ELSE <<>>)
    \o (IF variant(self) # None THEN variant(self) ELSE <<>>)

\* Version.__str__
__str__(self) ==
    JoinDots(release(self))
    \o (IF pre(self) # None THEN pre(self)[1] \o str(pre(self)[2]) ELSE <<>>)
    \o (IF post(self) # None THEN <<".", "p", "o", "s", "t">> \o str(post(self)[1]) ELSE <<>>)
    \o (IF dev(self) # None THEN <<".", "d", "e", "v">> \o str(dev(self)[1]) ELSE <<>>)
    \o (IF variant(self) # None THEN <<"-">> \o variant(self) ELSE <<>>)

\* ------------------------------------------------------------------------
\* Comparison of keys: Python's rich comparison of tuples.  op is one of
\* "lt", "le", "gt", "ge".
\* ------------------------------------------------------------------------
IntCmp(op, a, b) ==
    CASE op = "lt" -> a < b [] op = "le" -> a <= b [] op = "gt" -> a > b [] op = "ge" -> a >= b

\* tuple and str comparison: the first position where the operands differ
\* decides, by E; with none the lengths decide
SeqCmp(E(_, _, _), op, x, y) ==
    LET n == IF Len(x) < Len(y) THEN Len(x) ELSE Len(y)
        diff == {k \in 1..n : x[k] # y[k]}
    IN  IF diff = {} THEN IntCmp(op, Len(x), Len(y))
        ELSE LET k == CHOOSE m \in diff : \A j \in diff : m <= j
             IN  E(op, x[k], y[k])

StrCmp(op, x, y) == SeqCmp(LAMBDA o, a, b : IntCmp(o, Ord(a), Ord(b)), op, x, y)

ReleaseCmp(op, x, y) == SeqCmp(IntCmp, op, x, y)

\* a (letter, number) tuple against another
LetterCmp(op, x, y) ==
    IF x[1] # y[1] THEN StrCmp(op, x[1], y[1])
    ELSE IF x[2] # y[2] THEN IntCmp(op, x[2], y[2])
    ELSE op \in {"le", "ge"}

\* x <op> y where x or y is Infinity or NegativeInfinity: the sentinel's own
\* method answers, reflected when it is the right operand (Infinity is
\* greater than everything, NegativeInfinity less)
IsSentinel(x) == x = Infinity \/ x = NegativeInfinity
SentinelCmp(op, x, y) ==
    IF x = Infinity THEN op \in {"gt", "ge"}
    ELSE IF x = NegativeInfinity THEN op \in {"lt", "le"}
    ELSE IF y = Infinity THEN op \in {"lt", "le"}
    ELSE op \in {"gt", "ge"}

\* key <op> key for two CmpKey values
KeyCmp(op, k1, k2) ==
    LET diff == {n \in 1..5 : k1[n] # k2[n]}
    IN  IF diff = {} THEN op \in {"le", "ge"}
        ELSE LET n == CHOOSE m \in diff : \A j \in diff : m <= j
             IN  IF n = 1 THEN ReleaseCmp(op, k1[1], k2[1])
                 ELSE IF IsSentinel(k1[n]) \/ IsSentinel(k2[n])
                      THEN SentinelCmp(op, k1[n], k2[n])
                 ELSE IF n = 5 THEN StrCmp(op, k1[5], k2[5])
                 ELSE LetterCmp(op, k1[n], k2[n])

\* _BaseVersion
__hash__(self) == _key(self)
\* mutant of __lt__: no version is less than another
LtNever(self, other) == FALSE
__lt__(self, other) == KeyCmp("lt", _key(self), _key(other))
\* mutant of __le__: the strict comparison
LeStrict(self, other) == KeyCmp("lt", _key(self), _key(other))
__le__(self, other) == KeyCmp("le", _key(self), _key(other))
__eq__(self, other) == _key(self) = _key(other)
__ge__(self, other) == KeyCmp("ge", _key(self), _key(other))
__gt__(self, other) == KeyCmp("gt", _key(self), _key(other))
__ne__(self, other) == _key(self) # _key(other)

\* ------------------------------------------------------------------------
\* The version strings the behaviours draw from.  A form records how a
\* string is written: prefix, release, the pre, post and dev markers, each
\* <<separator, letter, separator, number>> or None, the variant (with its
\* "-") and a tail.  The constructor only ever sees Build(form).
\* ------------------------------------------------------------------------
MaxNum == 1

DevLetter == <<"d", "e", "v">>
Seps == {None, <<".">>, <<"-">>, <<"_">>}

\* the numbers as written: absent, 0..MaxNum, and one with a leading zero
NumTexts == {None} \cup {str(n) : n \in 0..MaxNum} \cup {<<"0">> \o str(MaxNum)}

\* separators, varied on one side of the letter at a time
SepPairs == {<<a, None>> : a \in Seps} \cup {<<None, b>> : b \in Seps}

Markers(letters) == {<<sp[1], l, sp[2], n>> : sp \in SepPairs, l \in letters, n \in NumTexts}

PreMarkers == Markers(Range(PreLetters))
PostMarkers ==
    Markers(Range(PostLetters)) \cup {<<<<"-">>, None, None, n>> : n \in NumTexts \ {None}}
DevMarkers == Markers({DevLetter})

Flat(marker) == IF marker = None THEN <<>> ELSE marker[1] \o marker[2] \o marker[3] \o marker[4]

Form(prefix, rel, pre_, post_, dev_, var, tail) ==
    [prefix |-> prefix, rel |-> rel, pre |-> pre_, post |-> post_, dev |-> dev_,
     var |-> var, tail |-> tail]

Build(f) == f.prefix \o f.rel \o Flat(f.pre) \o Flat(f.post) \o Flat(f.dev) \o f.var \o f.tail

\* plain neighbours for the segment under variation
PreA1 == <<None, <<"a">>, None, <<"1">>>>
PostDot1 == <<<<".">>, PostLetters[1], None, <<"1">>>>
PostBare1 == <<<<"-">>, None, None, <<"1">>>>
DevDot1 == <<<<".">>, DevLetter, None, <<"1">>>>
FewPre == {None, PreA1, <<None, <<"r", "c">>, None, None>>}
FewPost == {None, PostDot1, PostBare1}
FewDev == {None, DevDot1}
FewVar == {None, <<"-", "x">>, <<"-", "1">>}
Variants ==
    {<<"-", "x">>, <<"-", "X">>, <<"-", "1">>, <<"-", "x", "-", "y">>, <<"-", "x", ".", "1">>,
     <<"-", "1", "a">>, <<"-", "r", "c">>, <<"-", "x", "_", "Y">>, <<"-", "1", ".", "2">>}
Rel10 == <<"1", ".", "0">>
Releases ==
    {<<"1">>, Rel10, <<"1", ".", "0", ".", "0">>, <<"0", ".", "0">>, <<"0", "1">>,
     <<"1", ".", "1">>, <<"1", "0", ".", "2">>}
Prefixes == {None, <<"v">>, <<"V">>, <<" ">>, <<"\t", "v">>}
Tails == {None, <<" ">>, <<"\n">>}

\* each segment written in every way, beside plain neighbours
PreFamily ==
    {Form(None, Rel10, m, po, d, v, None) :
        m \in PreMarkers, po \in FewPost, d \in FewDev, v \in FewVar}
PostFamily ==
    {Form(None, Rel10, pr, m, d, v, None) :
        pr \in FewPre, m \in PostMarkers, d \in FewDev, v \in FewVar}
DevFamily ==
    {Form(None, Rel10, pr, po, m, v, None) :
        pr \in FewPre, po \in FewPost \cup {<<<<".">>, PostLetters[1], None, None>>},
        m \in DevMarkers, v \in FewVar}
VariantFamily ==
    {Form(None, Rel10, pr, po, d, v, None) :
        pr \in {None, PreA1}, po \in FewPost, d \in FewDev, v \in Variants}
OuterFamily ==
    {Form(px, r, pr, None, None, v, tl) :
        px \in Prefixes, r \in Releases, pr \in {None, PreA1}, v \in {None, <<"-", "x">>},
        tl \in Tails}

WrittenForms == PreFamily \cup PostFamily \cup DevFamily \cup VariantFamily \cup OuterFamily

\* strings meant to be rejected
Raw(s) == Form(s, None, None, None, None, None, None)
Insert(s, k, c) == SubSeq(s, 1, k) \o <<c>> \o SubSeq(s, k + 1, Len(s))
JunkBase == VariantFamily \cup {Form(<<"v">>, Rel10, None, None, None, None, <<" ">>)}
EmptyFamily == {Raw(None)}
NoReleaseFamily ==
    {Form(px, r, None, None, None, v, None) :
        px \in {<<"x">>, <<"z", "-">>, <<"-">>, <<".">>, <<"v", "v">>, <<"a">>, <<"v">>, <<" ">>},
        r \in {None, Rel10}, v \in {None, <<"-", "x">>}}
    \ {Form(px, Rel10, None, None, None, v, None) : px \in {<<"v">>, <<" ">>}, v \in {None, <<"-", "x">>}}
PlusBangFamily ==
    {Raw(Insert(Build(f), k, c)) : f \in JunkBase, k \in 0..4, c \in {"+", "!"}}
    \cup {Raw(Build(f) \o <<c>>) : f \in JunkBase, c \in {"+", "!"}}
DashEndFamily ==
    {[f EXCEPT !.tail = tl] : f \in JunkBase \cup PostFamily, tl \in {<<"-">>, <<"-", ".">>}}
\* a second pre-release marker after a complete one, and text after a blank
SecondPreTails ==
    {s \o l \o n : s \in {<<".">>, <<"_">>}, l \in Range(PreLetters), n \in NumTexts}
TrailFamily ==
    {Form(None, Rel10, PreA1, None, None, None, tl) : tl \in SecondPreTails}
    \cup {[f EXCEPT !.tail = tl] : f \in JunkBase, tl \in {<<" ", "x">>, <<" ", "1">>, <<"\n", "-", "x">>}}

JunkForms == EmptyFamily \cup NoReleaseFamily \cup PlusBangFamily \cup DashEndFamily \cup TrailFamily

\* ------------------------------------------------------------------------
\* State
\* ------------------------------------------------------------------------
VARIABLES
    form,   \* ghost: how each input string is written
    input,  \* the strings the constructor is called with, one per object
    obj,    \* obj[i]: NoObject, or what Version(input[i]) gave
    text,   \* text[i]: str(obj[i]) once taken, else None
    back,   \* back[i]: NoObject, or what Version(text[i]) gave
    sel,    \* the calls of determine_latest_image_tag: their arguments and results
    disp,   \* the dispatcher: _version_cache and the calls of fetch_package_version
    ptag,   \* a call of parse_docker_tag: its argument and what it gave
    helm,   \* a call of fetch_helm_chartmuseum_version: the index entries and its locals
    gh,     \* a call of fetch_github_action: the responses of GitHub and its progress
    scan    \* a call of _extract_helm_chart_versions_memory_efficient: events and locals

vars == <<form, input, obj, text, back, sel, disp, ptag, helm, gh, scan>>

\* the parts of the state that the Version operations never touch, and their
\* value while only Version objects are at work
beyondVersion == <<sel, disp, ptag, helm, gh, scan>>
\* the parts that neither the Version operations, the tag selection nor the
\* dispatcher touch
beyondCache == <<ptag, helm, gh, scan>>
\* the parts that hold the Version objects, and their value while none is made
versionVars == <<form, input, obj, text, back>>
Idle == [idle |-> TRUE]

NoObject == [raised |-> FALSE, made |-> FALSE]

Made(o) == o # NoObject
Ok(o) == Made(o) /\ ~o.raised

Slots == DOMAIN input

InitWith(fs) ==
    /\ form = fs
    /\ input = [i \in DOMAIN fs |-> Build(fs[i])]
    /\ obj = [i \in DOMAIN fs |-> NoObject]
    /\ text = [i \in DOMAIN fs |-> None]
    /\ back = [i \in DOMAIN fs |-> NoObject]
    /\ sel = Idle
    /\ disp = Idle
    /\ ptag = Idle /\ helm = Idle /\ gh = Idle /\ scan = Idle

\* Version(input[i])
Construct(i) ==
    /\ obj[i] = NoObject
    /\ obj' = [obj EXCEPT ![i] = Version(input[i])]
    /\ UNCHANGED <<form, input, text, back>>
    /\ UNCHANGED beyondVersion

\* str(obj[i])
Str(i) ==
    /\ Ok(obj[i])
    /\ text[i] = None
    /\ text' = [text EXCEPT ![i] = __str__(obj[i])]
    /\ UNCHANGED <<form, input, obj, back>>
    /\ UNCHANGED beyondVersion

\* Version(str(obj[i]))
Reconstruct(i) ==
    /\ text[i] # None
    /\ back[i] = NoObject
    /\ back' = [back EXCEPT ![i] = Version(text[i])]
    /\ UNCHANGED <<form, input, obj, text>>
    /\ UNCHANGED beyondVersion

\* obj[i] <op> obj[j], any of the six: both operands' _key is read, which
\* fills their _key_cache
WithKey(o) == [o EXCEPT !._key_cache = _key(o)]

Compare(i, j) ==
    /\ Ok(obj[i]) /\ Ok(obj[j])
    /\ obj[i]._key_cache = None \/ obj[j]._key_cache = None
    /\ obj' = [k \in Slots |-> IF k \in {i, j} THEN WithKey(obj[k]) ELSE obj[k]]
    /\ UNCHANGED <<form, input, text, back>>
    /\ UNCHANGED beyondVersion

\* one string: construct, render, construct again
Init == \E f \in WrittenForms \cup JunkForms : InitWith(<<f>>)

Next ==
    \E i \in Slots :
        \/ Construct(i)
        \/ Str(i)
        \/ Reconstruct(i)

Spec == Init /\ [][Next]_vars

\* two strings: construct both, compare
NextPair ==
    \/ \E i \in Slots : Construct(i)
    \/ \E i, j \in Slots : Compare(i, j)

\* strings that spell the same markers differently: each written form beside
\* the same form with every marker in the spelling str() uses
SpelledAs ==
    << <<"a", {<<"a", "l", "p", "h", "a">>, <<"a">>}>>,
       <<"b", {<<"b", "e", "t", "a">>, <<"b">>}>>,
       <<"rc", {<<"c">>, <<"p", "r", "e">>, <<"p", "r", "e", "v", "i", "e", "w">>, <<"r", "c">>}>>,
       <<"m", {<<"m", "i", "l", "e", "s", "t", "o", "n", "e">>, <<"m">>}>>,
       <<"post", {<<"p", "o", "s", "t">>, <<"r", "e", "v">>, <<"r">>, None}>>,
       <<"dev", {<<"d", "e", "v">>}>> >>
\* the class a marker letter stands for ("other" when it is written otherwise)
ClassOf(l) ==
    IF \E k \in DOMAIN SpelledAs : l \in SpelledAs[k][2]
    THEN SpelledAs[CHOOSE k \in DOMAIN SpelledAs : l \in SpelledAs[k][2]][1]
    ELSE "other"
\* the class as str() writes it
ClassText ==
    [a |-> <<"a">>, b |-> <<"b">>, rc |-> <<"r", "c">>, m |-> <<"m">>,
     post |-> <<"p", "o", "s", "t">>, dev |-> <<"d", "e", "v">>]
PlainLetter(l) == ClassText[ClassOf(l)]
PlainMarker(m) ==
    IF m = None THEN None
    ELSE <<IF ClassOf(m[2]) \in {"post", "dev"} THEN <<".">> ELSE None,
           PlainLetter(m[2]), None, IF m[4] = None THEN <<"0">> ELSE m[4]>>
PlainForm(f) ==
    [f EXCEPT !.pre = PlainMarker(f.pre), !.post = PlainMarker(f.post), !.dev = PlainMarker(f.dev)]
SpellPairs ==
    {<<f, PlainForm(f)>> : f \in PreFamily \cup PostFamily \cup DevFamily \cup VariantFamily}

\* strings that differ in letter case, a leading v, or blanks around them
UpperStr(s) == [k \in DOMAIN s |-> IF IsLower(s[k]) THEN UpperChars[IndexOf(LowerChars, s[k])] ELSE s[k]]
UpperMarker(m) == IF m = None THEN None ELSE <<m[1], UpperStr(m[2]), m[3], m[4]>>
Respelt(f) ==
    {[f EXCEPT !.pre = UpperMarker(f.pre), !.post = UpperMarker(f.post),
               !.dev = UpperMarker(f.dev)],
     [f EXCEPT !.var = UpperStr(f.var)],
     [f EXCEPT !.prefix = <<"v">>],
     [f EXCEPT !.prefix = <<" ", "V">>, !.tail = <<"\n">>]}
CaseBase ==
    {Form(None, Rel10, pr, po, d, v, None) :
        pr \in {None} \cup {<<None, l, None, <<"1">>>> : l \in Range(PreLetters)},
        po \in {None} \cup {<<<<".">>, l, None, <<"1">>>> : l \in Range(PostLetters)},
        d \in FewDev,
        v \in {None, <<"-", "x">>, <<"-", "x", ".", "y", "1">>}}
CasePairs == UNION {{<<f, g>> : g \in Respelt(f) \ {f}} : f \in CaseBase}

InitSpell == \E fs \in SpellPairs \cup CasePairs : InitWith(fs)

SpecSpell == InitSpell /\ [][NextPair]_vars

\* strings to order: every mix of present and absent segments over releases
\* that differ in trailing zeros only, a later release, and each marker of
\* the pre-release chain with the numbers 0..MaxNum
Rel1 == <<"1">>
Rel11 == <<"1", ".", "1">>
Numbered(s, l) == {<<s, l, None, str(n)>> : n \in 0..MaxNum}
MixForms ==
    {Form(None, r, pr, po, d, v, None) :
        r \in {Rel1, Rel10}, pr \in {None, PreA1}, po \in {None, PostDot1}, d \in FewDev,
        v \in {None, <<"-", "x">>, <<"-", "y">>}}
LaterForms ==
    {Form(None, Rel11, pr, None, d, v, None) :
        pr \in {None, PreA1}, d \in FewDev, v \in {None, <<"-", "x">>}}
ChainForms ==
    {Form(None, Rel10, pr, None, None, None, None) :
        pr \in UNION {Numbered(None, l) : l \in {<<"a">>, <<"b">>, <<"m">>, <<"r", "c">>}}}
    \cup {Form(None, Rel10, None, po, None, None, None) : po \in Numbered(<<".">>, PostLetters[1])}
    \cup {Form(None, Rel10, None, None, d, None, None) : d \in Numbered(<<".">>, DevLetter)}
ZeroForms ==
    {Form(None, r, pr, None, None, v, None) :
        r \in {<<"1", ".", "0", ".", "0", ".", "0">>}, pr \in {None, PreA1}, v \in {None, <<"-", "x">>}}
    \cup {Form(None, r, None, None, None, None, None) : r \in {<<"0">>, <<"0", ".", "0">>}}
VariantForms ==
    {Form(None, Rel10, None, None, None, v, None) :
        v \in {<<"-", "x", ".", "1">>, <<"-", "X">>, <<"-", "x", "y">>, <<"-", "1", "a">>}}
OrderForms == MixForms \cup LaterForms \cup ChainForms \cup ZeroForms \cup VariantForms

InitOrder == \E f, g \in OrderForms : InitWith(<<f, g>>)

SpecOrder == InitOrder /\ [][NextPair]_vars

\* ------------------------------------------------------------------------
\* Claims about one version string (specification Spec)
\* ------------------------------------------------------------------------

(* C1: for every string s that Version accepts, str(Version(s)) is accepted
   too and Version(str(Version(s))) == Version(s), with the same release,
   pre, post, dev and variant, whichever of the pre, post, dev and variant
   segments are present. *)
C1_RoundTrip ==
    \A i \in Slots :
        Made(back[i]) =>
            /\ Ok(back[i])
            /\ __eq__(back[i], obj[i])
            /\ release(back[i]) = release(obj[i])
            /\ pre(back[i]) = pre(obj[i])
            /\ post(back[i]) = post(obj[i])
            /\ dev(back[i]) = dev(obj[i])
            /\ variant(back[i]) = variant(obj[i])

\* a string with all four segments, not written canonically, has made the trip
C1_Witness ==
    \E i \in Slots :
        /\ Ok(back[i])
        /\ pre(obj[i]) # None /\ post(obj[i]) # None
        /\ dev(obj[i]) # None /\ variant(obj[i]) # None
        /\ text[i] # input[i]

\* the classes of string C8 names
HasChar(s, cs) == \E k \in DOMAIN s : s[k] \in cs
EndsWith(s, e) == Len(s) >= Len(e) /\ SubSeq(s, Len(s) - Len(e) + 1, Len(s)) = e
NoLeadingRelease(s) ==
    \A k \in DOMAIN s :
        (\A j \in 1..(k - 1) : s[j] \in {" ", "\t", "\n", "\r", "\f"}) =>
            /\ s[k] \notin {"0", "1", "2", "3", "4", "5", "6", "7", "8", "9"}
            /\ s[k] \in {"v", "V"} => (k = Len(s) \/ s[k + 1] \notin {"0", "1", "2", "3", "4", "5", "6", "7", "8", "9"})
InteriorBlank(s) ==
    \E a, b, c \in DOMAIN s : a < b /\ b < c /\ s[a] # " " /\ s[b] = " " /\ s[c] \notin {" ", "\t", "\n"}
SecondPre(f) ==
    /\ f.pre # None /\ f.pre[4] # None
    /\ f.post = None /\ f.dev = None /\ f.var = None
    /\ f.tail \in SecondPreTails
OutsideGrammar(i) ==
    \/ input[i] = <<>>
    \/ NoLeadingRelease(input[i])
    \/ HasChar(input[i], {"+", "!"})
    \/ EndsWith(input[i], <<"-">>)
    \/ EndsWith(input[i], <<"-", ".">>)
    \/ InteriorBlank(input[i])
    \/ SecondPre(form[i])

(* C8: Version(s) raises InvalidVersion, and yields no object, for the empty
   string, a string with no leading numeric release, a string containing
   "+" or "!", a string ending in "-" or "-.", and a string with trailing
   text nothing consumes (text after a blank; a second pre-release marker
   after a complete one, as in 4.0b3_RC2). *)
C8_Rejects == \A i \in Slots : (Made(obj[i]) /\ OutsideGrammar(i)) => obj[i] = InvalidVersion

\* ------------------------------------------------------------------------
\* Claims about the order of two versions (specification SpecOrder)
\* ------------------------------------------------------------------------
Compared(i, j) ==
    /\ Ok(obj[i]) /\ Ok(obj[j])
    /\ obj[i]._key_cache # None /\ obj[j]._key_cache # None

\* the stage of a version with at most one marker and no variant, in the
\* order C2 gives: dev, a, b, m, rc, final, post
Stages == <<"dev", "a", "b", "m", "rc", "final", "post">>
StageOf(o) ==
    IF pre(o) = None /\ post(o) = None /\ dev(o) = None THEN "final"
    ELSE IF pre(o) = None /\ post(o) = None THEN "dev"
    ELSE IF pre(o) = None /\ dev(o) = None THEN "post"
    ELSE IF post(o) = None /\ dev(o) = None THEN
        CASE pre(o)[1] = <<"a">> -> "a"
          [] pre(o)[1] = <<"b">> -> "b"
          [] pre(o)[1] = <<"m">> -> "m"
          [] pre(o)[1] = <<"r", "c">> -> "rc"
    ELSE "mixed"
Staged(o) == variant(o) = None /\ StageOf(o) # "mixed"

(* C2: for one release r and any marker numbers, r.dev(i) < r a(j) < r b(k)
   < r m(l) < r rc(n) < r < r.post(p): of two versions of the same release,
   each with at most one marker and no variant, the one at the earlier
   stage is strictly less, whatever the numbers. *)
C2_Chain ==
    \A i, j \in Slots :
        (/\ Ok(obj[i]) /\ Ok(obj[j])
         /\ release(obj[i]) = release(obj[j])
         /\ Staged(obj[i]) /\ Staged(obj[j])
         /\ IndexOf(Stages, StageOf(obj[i])) < IndexOf(Stages, StageOf(obj[j])))
        => /\ __lt__(obj[i], obj[j])
           /\ __gt__(obj[j], obj[i])
           /\ ~__eq__(obj[i], obj[j])

\* a dev-only version with the larger number was compared with an alpha
\* with the smaller
C2_Witness ==
    /\ Compared(1, 2)
    /\ release(obj[1]) = release(obj[2])
    /\ Staged(obj[1]) /\ StageOf(obj[1]) = "dev" /\ dev(obj[1]) = <<MaxNum>>
    /\ Staged(obj[2]) /\ StageOf(obj[2]) = "a" /\ pre(obj[2])[2] = 0

\* the release without the zeros it ends in
Trimmed(r) ==
    LET n == CHOOSE n \in 0..Len(r) :
                 /\ \A k \in (n + 1)..Len(r) : r[k] = 0
                 /\ n = 0 \/ r[n] # 0
    IN  SubSeq(r, 1, n)

\* the numbers between the dots of a release as written
RECURSIVE Components(_)
Components(s) ==
    IF \E k \in DOMAIN s : s[k] = "."
    THEN LET k == CHOOSE k \in DOMAIN s : s[k] = "." /\ \A j \in 1..(k - 1) : s[j] # "."
         IN  <<int(SubSeq(s, 1, k - 1))>> \o Components(SubSeq(s, k + 1, Len(s)))
    ELSE <<int(s)>>

(* C3: two versions whose releases differ only in trailing zero components,
   with equal pre, post, dev and variant, are equal and have equal hashes,
   and the release accessor of each still gives the components as written,
   trailing zeros included. *)
C3_TrailingZeros ==
    \A i, j \in Slots :
        (/\ Ok(obj[i]) /\ Ok(obj[j])
         /\ Trimmed(release(obj[i])) = Trimmed(release(obj[j]))
         /\ pre(obj[i]) = pre(obj[j]) /\ post(obj[i]) = post(obj[j])
         /\ dev(obj[i]) = dev(obj[j]) /\ variant(obj[i]) = variant(obj[j]))
        => /\ __eq__(obj[i], obj[j])
           /\ __hash__(obj[i]) = __hash__(obj[j])
           /\ release(obj[i]) = Components(form[i].rel)
           /\ release(obj[j]) = Components(form[j].rel)

\* 1.0.0.0 was compared with 1.0, or one carrying the same markers
C3_Witness ==
    /\ Compared(1, 2)
    /\ release(obj[1]) = <<1, 0, 0, 0>> /\ release(obj[2]) = <<1, 0>>
    /\ pre(obj[1]) = pre(obj[2]) /\ variant(obj[1]) = variant(obj[2])
    /\ post(obj[1]) = post(obj[2]) /\ dev(obj[1]) = dev(obj[2])

\* the key C4 describes: the trimmed release and the four fields, None
\* standing for the sentinel of an absent one
FieldKey(o) == <<Trimmed(release(o)), pre(o), post(o), dev(o), variant(o)>>

\* every version the ordered strings parse to
OrderObjects == {Version(Build(f)) : f \in OrderForms}

(* C4: the comparison operators form a total order: for every a and b
   exactly one of a < b, a == b, a > b holds; < is transitive; a == b holds
   exactly when the keys (trimmed release, pre, post, dev, variant) are
   equal; and <=, >=, != agree with <, ==, >. *)
C4_TotalOrder ==
    \A i, j \in Slots :
        (Ok(obj[i]) /\ Ok(obj[j])) =>
            LET a == obj[i]
                b == obj[j]
            IN  /\ \/ __lt__(a, b) /\ ~__eq__(a, b) /\ ~__gt__(a, b)
                   \/ ~__lt__(a, b) /\ __eq__(a, b) /\ ~__gt__(a, b)
                   \/ ~__lt__(a, b) /\ ~__eq__(a, b) /\ __gt__(a, b)
                /\ __eq__(a, b) <=> (FieldKey(a) = FieldKey(b))
                /\ __le__(a, b) <=> (__lt__(a, b) \/ __eq__(a, b))
                /\ __ge__(a, b) <=> (__gt__(a, b) \/ __eq__(a, b))
                /\ __ne__(a, b) <=> ~__eq__(a, b)
                /\ \A c \in OrderObjects :
                       (__lt__(a, b) /\ __lt__(b, c)) => __lt__(a, c)

\* two versions were compared whose keys first differ on the post axis,
\* where one has a marker and the other the sentinel
C4_Witness ==
    /\ Compared(1, 2)
    /\ release(obj[1]) = release(obj[2]) /\ pre(obj[1]) = pre(obj[2])
    /\ post(obj[1]) # None /\ post(obj[2]) = None
    /\ dev(obj[1]) # None /\ variant(obj[2]) # None
    /\ __gt__(obj[1], obj[2])

SameButVariant(a, b) ==
    /\ release(a) = release(b)
    /\ pre(a) = pre(b) /\ post(a) = post(b) /\ dev(a) = dev(b)

(* C5: of two versions with the same release and the same pre, post and dev
   markers, the one with no variant is strictly greater than the one with
   a variant. *)
C5_NoVariantGreater ==
    \A i, j \in Slots :
        (/\ Ok(obj[i]) /\ Ok(obj[j])
         /\ SameButVariant(obj[i], obj[j])
         /\ variant(obj[i]) = None /\ variant(obj[j]) # None)
        => __gt__(obj[i], obj[j]) /\ __lt__(obj[j], obj[i])

SameButDev(a, b) ==
    /\ release(a) = release(b)
    /\ pre(a) = pre(b) /\ post(a) = post(b) /\ variant(a) = variant(b)

(* C6: of two versions with the same release and the same pre, post and
   variant, the one with no dev marker is strictly greater than the one
   with a dev marker. *)
C6_NoDevGreater ==
    \A i, j \in Slots :
        (/\ Ok(obj[i]) /\ Ok(obj[j])
         /\ SameButDev(obj[i], obj[j])
         /\ dev(obj[i]) = None /\ dev(obj[j]) # None)
        => __gt__(obj[i], obj[j]) /\ __lt__(obj[j], obj[i])

\* a version with a variant and no other marker was compared with the same
\* version carrying a dev marker
C6_Witness ==
    /\ Compared(1, 2)
    /\ SameButDev(obj[1], obj[2])
    /\ pre(obj[1]) = None /\ post(obj[1]) = None /\ variant(obj[1]) # None
    /\ dev(obj[1]) = None /\ dev(obj[2]) # None

VariantOnly(o) == variant(o) # None /\ pre(o) = None /\ post(o) = None /\ dev(o) = None
Final(o) == variant(o) = None /\ pre(o) = None /\ post(o) = None /\ dev(o) = None

\* x before y in the order of strings: at the first place they differ the
\* character of x has the smaller code, or x is a proper prefix of y
RECURSIVE LexLess(_, _)
LexLess(x, y) ==
    IF y = <<>> THEN FALSE
    ELSE IF x = <<>> THEN TRUE
    ELSE IF Head(x) # Head(y) THEN Ord(Head(x)) < Ord(Head(y))
    ELSE LexLess(Tail(x), Tail(y))

(* C7: a version r-x with a variant and no pre, post or dev marker is less
   than the final release r, greater than every pre-release of r, less than
   every post-release of r that has no pre marker, and two such versions of
   r compare by the lexicographic order of their variants. *)
C7_VariantOnly ==
    \A i, j \in Slots :
        (/\ Ok(obj[i]) /\ Ok(obj[j])
         /\ VariantOnly(obj[i])
         /\ release(obj[i]) = release(obj[j]))
        => LET a == obj[i]
               b == obj[j]
           IN  /\ Final(b) => (__lt__(a, b) /\ __gt__(b, a))
               /\ pre(b) # None => (__gt__(a, b) /\ __lt__(b, a))
               /\ (post(b) # None /\ pre(b) = None) => (__lt__(a, b) /\ __gt__(b, a))
               /\ VariantOnly(b) =>
                      /\ __lt__(a, b) <=> LexLess(variant(a), variant(b))
                      /\ __gt__(a, b) <=> LexLess(variant(b), variant(a))
                      /\ __eq__(a, b) <=> (variant(a) = variant(b))

\* a variant-only version was compared with a pre-release that has a
\* variant of its own, later in the order of strings
C7_Witness ==
    /\ Compared(1, 2)
    /\ VariantOnly(obj[1]) /\ release(obj[1]) = release(obj[2])
    /\ pre(obj[2]) # None /\ variant(obj[2]) # None
    /\ LexLess(variant(obj[1]), variant(obj[2]))


\* ------------------------------------------------------------------------
\* Claims about two spellings of a version (specification SpecSpell)
\* ------------------------------------------------------------------------

\* a string without the blanks around it, a leading v and the case of its
\* letters
RECURSIVE StripLeft(_)
StripLeft(s) == IF s # <<>> /\ Head(s) \in {" ", "\t", "\n", "\r", "\f"} THEN StripLeft(Tail(s)) ELSE s
RECURSIVE StripRight(_)
StripRight(s) ==
    IF s # <<>> /\ s[Len(s)] \in {" ", "\t", "\n", "\r", "\f"}
    THEN StripRight(SubSeq(s, 1, Len(s) - 1)) ELSE s
CaseFolded(s) ==
    LET u == StripRight(StripLeft(s))
        w == IF u # <<>> /\ Head(u) \in {"v", "V"} THEN Tail(u) ELSE u
    IN  [k \in DOMAIN w |->
            IF w[k] \in Range(UpperChars) THEN LowerChars[IndexOf(UpperChars, w[k])] ELSE w[k]]
HasUpper(s) == \E k \in DOMAIN s : s[k] \in Range(UpperChars)

(* C9: two accepted strings that differ only in the case of their letters,
   in a leading "v" or in the blanks around them parse to equal versions
   with the same str(), whether the letters are in a pre, post or dev marker
   or in the variant. *)
C9_CaseBlind ==
    \A i, j \in Slots :
        (/\ Ok(obj[i]) /\ Ok(obj[j])
         /\ CaseFolded(input[i]) = CaseFolded(input[j]))
        => /\ __eq__(obj[i], obj[j])
           /\ __str__(obj[i]) = __str__(obj[j])

\* the number a marker is written with
NumberOf(m) == IF m[4] = None THEN 0 ELSE int(m[4])

SameMarker(m, n) ==
    \/ m = None /\ n = None
    \/ /\ m # None /\ n # None
       /\ ClassOf(m[2]) # "other" /\ ClassOf(m[2]) = ClassOf(n[2])
       /\ NumberOf(m) = NumberOf(n)

\* two forms that differ in nothing but how their markers are spelled
SameButSpelling(f, g) ==
    /\ f.prefix = g.prefix /\ f.rel = g.rel /\ f.var = g.var /\ f.tail = g.tail
    /\ SameMarker(f.pre, g.pre) /\ SameMarker(f.post, g.post) /\ SameMarker(f.dev, g.dev)

\* every marker of the string has the class and the number it is written with
ReadAsWritten(i) ==
    /\ form[i].pre # None =>
           pre(obj[i]) = <<ClassText[ClassOf(form[i].pre[2])], NumberOf(form[i].pre)>>
    /\ form[i].post # None => post(obj[i]) = <<NumberOf(form[i].post)>>
    /\ form[i].dev # None => dev(obj[i]) = <<NumberOf(form[i].dev)>>

\* a marker with neither a number nor a separator after its letter stands
\* directly before a "-" that is read as its separator: any "-" after a
\* pre or dev marker, a "-" before a digit after a post marker
Dash(s) == Len(s) >= 1 /\ s[1] = "-"
DashDigit(s) == Len(s) >= 2 /\ s[1] = "-" /\ s[2] \in Range(DigitChars)
Bare(m) == m # None /\ m[3] = None /\ m[4] = None
DashTaken(f) ==
    \/ Bare(f.pre) /\ Dash(Flat(f.post) \o Flat(f.dev) \o f.var \o f.tail)
    \/ Bare(f.post) /\ DashDigit(Flat(f.dev) \o f.var \o f.tail)
    \/ Bare(f.dev) /\ Dash(f.var \o f.tail)

(* C10 as stated: each marker is read with the class of its spelling (alpha,
   a; beta, b; c, pre, preview, rc; milestone, m; post, rev, r, bare -N) and
   with its number, 0 when none is written, so two accepted strings that
   differ only in the spelling of a marker, in its separators or in an
   omitted 0 are equal. *)
C10_AnySpelling ==
    \A i, j \in Slots :
        (/\ Ok(obj[i]) /\ Ok(obj[j])
         /\ SameButSpelling(form[i], form[j]))
        => /\ ReadAsWritten(i) /\ ReadAsWritten(j)
           /\ __eq__(obj[i], obj[j])

(* C10, amended: the same, for strings in which no marker written without a
   number and without a separator after its letter is directly followed by
   a "-" that the marker takes: any "-" after a pre or dev marker, "-" and
   a digit after a post marker. *)
C10_Spelling ==
    \A i, j \in Slots :
        (/\ Ok(obj[i]) /\ Ok(obj[j])
         /\ SameButSpelling(form[i], form[j])
         /\ ~DashTaken(form[i]) /\ ~DashTaken(form[j]))
        => /\ ReadAsWritten(i) /\ ReadAsWritten(j)
           /\ __eq__(obj[i], obj[j])

\* "_preview" with no number was compared with "rc0"
C10_Witness ==
    /\ Compared(1, 2)
    /\ form[1].pre = <<<<"_">>, <<"p", "r", "e", "v", "i", "e", "w">>, None, None>>
    /\ form[2].pre = <<None, <<"r", "c">>, None, <<"0">>>>
    /\ SameButSpelling(form[1], form[2])
    /\ ~DashTaken(form[1]) /\ ~DashTaken(form[2])
    /\ form[1].post # None /\ form[1].dev # None /\ form[1].var # None


(***************************************************************************)
(* Part 2: the tag selection of get_latest_versions_pkg: parse_docker_tag  *)
(* of utils/version_parser.py and determine_latest_image_tag of            *)
(* fetchers/docker.py.                                                     *)
(***************************************************************************)

\* what parse_docker_tag gives besides a dict: None, or the ValueError that
\* leaves it when int() refuses a number
NoTag == [ok |-> FALSE, raised |-> FALSE]
TagError == [ok |-> FALSE, raised |-> TRUE]

SpecialTags == {<<"l", "a", "t", "e", "s", "t">>, <<"s", "t", "a", "b", "l", "e">>, <<"e", "d", "g", "e">>, <<"n", "i", "g", "h", "t", "l", "y">>, <<"d", "e", "v">>, <<"m", "a", "s", "t", "e", "r">>, <<"m", "a", "i", "n">>}
\* tag.lower() in [...]
IsSpecial(tag) == \E w \in SpecialTags : Len(w) = Len(tag) /\ LowerStr(tag) = w

\* [a-f0-9] under re.IGNORECASE
IsHex(c) == IsDigit(c) \/ Lower(c) \in {"a", "b", "c", "d", "e", "f"}
\* \w
IsWord(c) == IsAlnum(c) \/ c = "_"

\* $ : the end of the string, or the place before a final newline
AtEnd(s, i) == i = Len(s) + 1 \/ (i = Len(s) /\ s[i] = "\n")

\* \d+ and \w* from place i of s: the length of the run.  A tag may be
\* thousands of characters long, so a run is counted 64 places at a time
\* where it goes on that far
RECURSIVE DecimalRun(_, _)
DecimalRun(s, i) ==
    IF i + 63 <= Len(s) /\ \A k \in i..(i + 63) : IsDigit(s[k])
    THEN 64 + DecimalRun(s, i + 64)
    ELSE IF i <= Len(s) /\ IsDigit(s[i]) THEN 1 + DecimalRun(s, i + 1)
    ELSE 0

RECURSIVE WordRun(_, _)
WordRun(s, i) ==
    IF i + 63 <= Len(s) /\ \A k \in i..(i + 63) : IsWord(s[k])
    THEN 64 + WordRun(s, i + 64)
    ELSE IF i <= Len(s) /\ IsWord(s[i]) THEN 1 + WordRun(s, i + 1)
    ELSE 0

\* re.match(r'^[a-f0-9]{7,40}$', tag, re.IGNORECASE)
MatchesHex(tag) ==
    \E n \in 7..40 : AtEnd(tag, n + 1) /\ \A k \in 1..n : IsHex(tag[k])

\* re.match(r'^[0-9]+$', tag)
MatchesDecimal(tag) ==
    \E n \in 1..Len(tag) : AtEnd(tag, n + 1) /\ \A k \in 1..n : IsDigit(tag[k])

\* re.sub(r'^v', '', tag)
StripV(tag) == IF tag # <<>> /\ tag[1] = "v" THEN Tail(tag) ELSE tag

\* clean_tag.split('-', 1)
SplitDash(s) ==
    IF \E k \in DOMAIN s : s[k] = "-"
    THEN LET k == CHOOSE k \in DOMAIN s : s[k] = "-" /\ \A j \in 1..(k - 1) : s[j] # "-"
         IN  <<SubSeq(s, 1, k - 1), SubSeq(s, k + 1, Len(s))>>
    ELSE <<s>>

\* re.match(r'^(?P<version>\d+(?:\.\d+)*)(?P<prerelease>\w*)$', prefix): the
\* version is the longest the pattern can take (a shorter one leaves more for
\* \w* and cannot reach the end where the longest does not); \w* then runs to
\* the end
RECURSIVE DottedEnd(_, _)
DottedEnd(s, i) ==
    IF i <= Len(s) /\ s[i] = "." /\ DecimalRun(s, i + 1) >= 1
    THEN DottedEnd(s, i + 1 + DecimalRun(s, i + 1))
    ELSE i
MatchPrefix(prefix) ==
    IF DecimalRun(prefix, 1) = 0 THEN NoMatch
    ELSE LET e == DottedEnd(prefix, 1 + DecimalRun(prefix, 1))
             w == e + WordRun(prefix, e)
         IN  IF AtEnd(prefix, w)
             THEN [ok |-> TRUE, version |-> Slice(prefix, 1, e), prerelease |-> Slice(prefix, e, w)]
             ELSE NoMatch

\* int(version_str) >= 1000 for a digit string of any length: four or more
\* digits are left once the leading zeros are gone
RECURSIVE NoLeadingZeros(_)
NoLeadingZeros(d) == IF d # <<>> /\ d[1] = "0" THEN NoLeadingZeros(Tail(d)) ELSE d
AtLeast1000(d) == Len(NoLeadingZeros(d)) >= 4

\* int(s) raises ValueError when s has more digits than the interpreter
\* converts (sys.int_info.default_max_str_digits, leading zeros counted)
int_max_str_digits == 4300
IntRaises(digits) == Len(digits) > int_max_str_digits

\* [int(x) for x in version_str.split('.')], and whether an int(x) of it raises
ReleaseOf(version_str) == SplitRelease(version_str, 1)
ReleaseRaises(version_str) ==
    \E i \in DOMAIN version_str :
        /\ i = 1 \/ version_str[i - 1] = "."
        /\ DecimalRun(version_str, i) > int_max_str_digits

\* mutant of parse_docker_tag: the dot-less numbers are all kept
ParseKeepLarge(tag) ==
    IF tag = <<>> THEN NoTag
    ELSE IF IsSpecial(tag) THEN NoTag
    ELSE IF MatchesHex(tag) /\ ~MatchesDecimal(tag) THEN NoTag
    ELSE LET parts == SplitDash(StripV(tag))
             match == MatchPrefix(parts[1])
         IN  IF ~match.ok THEN NoTag
             ELSE IF ReleaseRaises(match.version) THEN TagError
             ELSE [ok |-> TRUE,
                   release |-> ReleaseOf(match.version),
                   suffix |-> IF Len(parts) > 1 THEN parts[2] ELSE <<>>,
                   prerelease |-> match.prerelease,
                   original |-> tag]

\* the fields parse_docker_tag gives, for the mutants below
Dotless1000(tag) ==
    LET match == MatchPrefix(SplitDash(StripV(tag))[1])
    IN  /\ match.ok
        /\ \A k \in DOMAIN match.version : match.version[k] # "."
        /\ ~IntRaises(match.version)
        /\ AtLeast1000(match.version)
ParseFields(tag) == IF Dotless1000(tag) THEN NoTag ELSE ParseKeepLarge(tag)

\* mutant of parse_docker_tag: 'original' is the tag without its leading v
ParseNormalized(tag) ==
    LET p == ParseFields(tag)
    IN  IF p.ok THEN [p EXCEPT !.original = StripV(tag)] ELSE p

\* mutant of parse_docker_tag: the suffix is dropped
ParseNoSuffix(tag) ==
    LET p == ParseFields(tag)
    IN  IF p.ok THEN [p EXCEPT !.suffix = <<>>] ELSE p

\* mutant of parse_docker_tag: the prerelease marker is dropped
ParseNoPrerelease(tag) ==
    LET p == ParseFields(tag)
    IN  IF p.ok THEN [p EXCEPT !.prerelease = <<>>] ELSE p

\* mutant of parse_docker_tag: the release is read from its last component
ParseReleaseReversed(tag) ==
    LET p == ParseFields(tag)
        n == Len(p.release)
    IN  IF p.ok THEN [p EXCEPT !.release = [k \in 1..n |-> p.release[n + 1 - k]]] ELSE p

\* parse_docker_tag(tag).  The ValueError of int(version_str) at line 51 is
\* caught there (pass); the one of int(x) at line 57 is not
parse_docker_tag(tag) ==
    IF tag = <<>> THEN NoTag
    ELSE IF IsSpecial(tag) THEN NoTag
    ELSE IF MatchesHex(tag) /\ ~MatchesDecimal(tag) THEN NoTag
    ELSE LET clean_tag == StripV(tag)
             parts == SplitDash(clean_tag)
             prefix == parts[1]
             suffix == IF Len(parts) > 1 THEN parts[2] ELSE <<>>
             match == MatchPrefix(prefix)
         IN  IF ~match.ok THEN NoTag
             ELSE IF (\A k \in DOMAIN match.version : match.version[k] # ".")
                     /\ ~IntRaises(match.version)
                     /\ AtLeast1000(match.version)
                  THEN NoTag
             ELSE IF ReleaseRaises(match.version) THEN TagError
             ELSE [ok |-> TRUE,
                   release |-> ReleaseOf(match.version),
                   suffix |-> suffix,
                   prerelease |-> match.prerelease,
                   original |-> tag]


\* ------------------------------------------------------------------------
\* determine_latest_image_tag(available_tags, tag_hint), after the design's
\* pipeline: noise filtering and parsing (parse_docker_tag), the shape of
\* the hint, compatibility grouping, ranking.  Where the ranking leaves
\* several tags level the result is any of them, so the operator gives the
\* set of tags the call may return; the empty set stands for None.
\* ------------------------------------------------------------------------
NoHint == None

\* the release with zeros after its last component
At(r, k) == IF k <= Len(r) THEN r[k] ELSE 0
PadLess(a, b) ==
    \E k \in 1..(Len(a) + Len(b)) :
        /\ At(a, k) < At(b, k)
        /\ \A j \in 1..(k - 1) : At(a, j) = At(b, j)

\* the hint, split the way a tag is: its suffix, and whether its version
\* carries a prerelease marker
HintParts(tag_hint) == SplitDash(StripV(tag_hint))
HintSuffix(tag_hint) ==
    IF Len(HintParts(tag_hint)) > 1 THEN HintParts(tag_hint)[2] ELSE <<>>
HintPrerelease(tag_hint) ==
    LET match == MatchPrefix(HintParts(tag_hint)[1])
    IN  match.ok /\ match.prerelease # <<>>

\* steps 1 and 2: the tags that are not noise, parsed
ParsedTags(available_tags) ==
    {parse_docker_tag(available_tags[k]) : k \in DOMAIN available_tags} \ {NoTag}

\* steps 3 and 4: the tags eligible for ranking.  The group is the tags with
\* the hint's suffix, or without a hint the tags with no suffix if there are
\* any; prerelease tags leave the group unless the hint carries a prerelease
\* marker, or unless without a hint the group holds nothing else
Eligible(parsed, tag_hint) ==
    LET plain == {t \in parsed : t.suffix = <<>>}
        group == IF tag_hint # NoHint
                 THEN {t \in parsed : t.suffix = HintSuffix(tag_hint)}
                 ELSE IF plain # {} THEN plain ELSE parsed
        stable == {t \in group : t.prerelease = <<>>}
    IN  IF tag_hint # NoHint
        THEN IF HintPrerelease(tag_hint) THEN group ELSE stable
        ELSE IF stable # {} THEN stable ELSE group

\* step 5: the greatest release; among those the tags without a prerelease
\* marker if there are any; among those the ones no other exceeds as a Version
GreatestRelease(ts) == {t \in ts : \A u \in ts : ~PadLess(t.release, u.release)}
PreferStable(ts) ==
    IF \E t \in ts : t.prerelease = <<>> THEN {t \in ts : t.prerelease = <<>>} ELSE ts
VersionLess(a, b) ==
    LET x == Version(a)
        y == Version(b)
    IN  ~x.raised /\ ~y.raised /\ __lt__(x, y)
GreatestVersion(ts) == {t \in ts : \A u \in ts : ~VersionLess(t.original, u.original)}

determine_latest_image_tag(available_tags, tag_hint) ==
    LET parsed == ParsedTags(available_tags)
    IN  {t.original :
            t \in GreatestVersion(PreferStable(GreatestRelease(Eligible(parsed, tag_hint))))}

\* the results of a call: None, a tag, an exception; Pending before it
Pending == [kind |-> "pending"]
NoneResult == [kind |-> "none"]
Raised == [kind |-> "raised"]
TagResult(tag) == [kind |-> "tag", tag |-> tag]

Results(available_tags, tag_hint) ==
    IF \E k \in DOMAIN available_tags : parse_docker_tag(available_tags[k]) = TagError
    THEN {Raised}
    ELSE IF determine_latest_image_tag(available_tags, tag_hint) = {} THEN {NoneResult}
    ELSE {TagResult(tag) : tag \in determine_latest_image_tag(available_tags, tag_hint)}

\* ------------------------------------------------------------------------
\* The tag lists and hints the calls draw from
\* ------------------------------------------------------------------------
MaxTags == 3

SuffixTags ==
    <<<<"1", ".", "2", ".", "3">>, <<"2", ".", "0", ".", "0">>, <<"1", ".", "3", ".", "0", "-",
     "a", "l", "p", "i", "n", "e">>, <<"v", "1", ".", "4", ".", "0", "-", "a", "l", "p", "i",
     "n", "e">>, <<"2", ".", "5", ".", "0", "-", "a", "l", "p", "i", "n", "e", "3">>>>
SuffixHints ==
    {NoHint, <<"1", ".", "2">>, <<"1", ".", "2", "-", "a", "l", "p", "i", "n", "e">>, <<"1",
     ".", "2", "-", "a", "l", "p">>}
PreTags ==
    <<<<"3", ".", "7", ".", "0">>, <<"3", ".", "7", ".", "0", "b", "1">>,
     <<"3", ".", "8", ".", "0", "b", "1">>, <<"3", ".", "8", ".",
     "0", "b", "2">>, <<"3", ".", "9", ".", "0", "r", "c", "1", "-", "s", "l", "i", "m">>,
     <<"3", ".", "6", ".", "0", "-", "s", "l", "i", "m">>>>
PreHints ==
    {NoHint, <<"3", ".", "7", ".", "0">>, <<"3", ".", "7", ".", "0", "b", "1">>, <<"3", ".",
     "7", "a", "1", "-", "s", "l", "i", "m">>}
NoiseTags ==
    <<<<"M", "a", "i", "n">>, <<"a", "b", "c", "1", "2", "3", "4">>, <<"1", "0", "0", "0">>,
     <<"V", "1", ".", "3">>, <<"1", ".", "2", ".", "3">>>>
NoiseHints ==
    {NoHint, <<"1", ".", "2">>, <<"l", "a", "t", "e", "s", "t">>, <<"x", "-", "y">>}
LevelTags ==
    <<<<"1", ".", "2">>, <<"1", ".", "2", ".", "0">>, <<"v", "1", ".", "2">>, <<"1", ".", "2",
     "r", "c", "1">>, <<"1", ".", "2", "f", "o", "o">>>>
LevelHints ==
    {NoHint, <<"1">>, <<"1", "a", "1">>}

\* a tag of one digit more than int() converts
TooManyDigits == [k \in 1..(int_max_str_digits + 1) |-> "9"]
LongTags == <<TooManyDigits, <<"1", ".", "2", ".", "3">>, <<"l", "a", "t", "e", "s", "t">>>>
LongHints == {NoHint, <<"1", ".", "2">>}

Pools ==
    {<<SuffixTags, SuffixHints>>, <<PreTags, PreHints>>, <<NoiseTags, NoiseHints>>,
     <<LevelTags, LevelHints>>, <<LongTags, LongHints>>}

\* the lists of at most MaxTags different tags of a pool, in its order
RECURSIVE Pick(_, _, _)
Pick(pool, places, k) ==
    IF k > Len(pool) THEN <<>>
    ELSE (IF k \in places THEN <<pool[k]>> ELSE <<>>) \o Pick(pool, places, k + 1)
TagLists(pool) ==
    {Pick(pool, places, 1) :
        places \in {ps \in SUBSET DOMAIN pool : Cardinality(ps) <= MaxTags}}

\* the same tags in every other order, with one repeated, and with noise added
Permuted(l) ==
    {[k \in DOMAIN l |-> l[p[k]]] :
        p \in {q \in [DOMAIN l -> DOMAIN l] : \A a, b \in DOMAIN l : q[a] = q[b] => a = b}}
Repeated(l) == IF l = <<>> THEN l ELSE l \o <<Head(l)>>
Noisy(l) == <<<<"l", "a", "t", "e", "s", "t">>>> \o l \o <<<<"2", "0", "2", "6", "0", "2", "0", "2">>>>
Rearranged(l) == (Permuted(l) \ {l}) \cup {Repeated(l), Noisy(l)}

Call(available_tags, tag_hint) ==
    [tags |-> available_tags, hint |-> tag_hint, result |-> Pending]

\* result = determine_latest_image_tag(tags, hint), for call c
Select(c) ==
    /\ sel # Idle
    /\ sel[c].result = Pending
    /\ \E r \in Results(sel[c].tags, sel[c].hint) :
           sel' = [sel EXCEPT ![c].result = r]
    /\ UNCHANGED <<form, input, obj, text, back, disp>>
    /\ UNCHANGED beyondCache

InitTags ==
    /\ form = <<>> /\ input = <<>> /\ obj = <<>> /\ text = <<>> /\ back = <<>>
    /\ disp = Idle
    /\ ptag = Idle /\ helm = Idle /\ gh = Idle /\ scan = Idle
    /\ \E p \in Pools :
           \E l \in TagLists(p[1]), h \in p[2] :
               \E m \in Rearranged(l) :
                   sel = <<Call(l, h), Call(m, h)>>

NextTags == \E c \in {1, 2} : Select(c)

SpecTags == InitTags /\ [][NextTags]_vars


\* ------------------------------------------------------------------------
\* Claims about the tag selection
\* ------------------------------------------------------------------------
Calls == IF sel = Idle THEN {} ELSE DOMAIN sel
Returned(c) == sel[c].result.kind = "tag"
Listed(c) == {sel[c].tags[k] : k \in DOMAIN sel[c].tags}

\* C11: a call of the tag selection returns None or a string that is an
\* element of its tag list, character for character
C11_Literal ==
    \A c \in Calls : Returned(c) => sel[c].result.tag \in Listed(c)

\* a tag with a leading v is returned as it was given, under a hint
C11_Witness ==
    \E c \in Calls :
        /\ Returned(c)
        /\ sel[c].hint # NoHint
        /\ Head(sel[c].result.tag) = "v"
        /\ sel[c].result.tag \in Listed(c)


\* the noise tags: a moving reference in any letter case, a hex string of 7
\* to 40 characters that is not a decimal number, a number of 1000 or more
\* without a dot (before the suffix, after a leading v)
MovingReference(tag) == Len(tag) <= 7 /\ LowerStr(tag) \in SpecialTags
CommitHash(tag) ==
    /\ Len(tag) \in 7..40
    /\ \A k \in DOMAIN tag : IsHex(tag[k])
    /\ \E k \in DOMAIN tag : ~IsDigit(tag[k])
DateLike(tag) ==
    LET number == SplitDash(StripV(tag))[1]
    IN  /\ number # <<>>
        /\ \A k \in DOMAIN number : IsDigit(number[k])
        /\ AtLeast1000(number)
IsNoise(tag) == MovingReference(tag) \/ CommitHash(tag) \/ DateLike(tag)
WithoutNoise(tags) == SelectSeq(tags, LAMBDA x : ~IsNoise(x))
Done(c) == sel[c].result # Pending
\* the call has returned: a tag or None
Answered(c) == Done(c) /\ sel[c].result # Raised

TagSuffix(tag) ==
    LET parts == SplitDash(StripV(tag))
    IN  IF Len(parts) > 1 THEN parts[2] ELSE <<>>
Hinted(c) == sel[c].hint # NoHint
StartsWith(s, p) == Len(p) <= Len(s) /\ SubSeq(s, 1, Len(p)) = p

\* C13: under a hint a returned tag has exactly the suffix of the hint (no
\* suffix under a hint without suffix); when no tag of the list has the
\* suffix of the hint the result is None
C13_ExactSuffix ==
    \A c \in Calls :
        /\ Hinted(c) /\ Returned(c)
               => TagSuffix(sel[c].result.tag) = TagSuffix(sel[c].hint)
        /\ Hinted(c) /\ Answered(c)
             /\ (\A x \in Listed(c) : TagSuffix(x) # TagSuffix(sel[c].hint))
               => sel[c].result = NoneResult

\* a tag with the suffix of the hint is returned although the list holds a
\* tag of greater release whose suffix starts with the suffix of the hint
C13_Witness ==
    \E c \in Calls :
        /\ Hinted(c) /\ Returned(c)
        /\ TagSuffix(sel[c].hint) # <<>>
        /\ TagSuffix(sel[c].result.tag) = TagSuffix(sel[c].hint)
        /\ \E x \in Listed(c) :
               /\ TagSuffix(x) # TagSuffix(sel[c].hint)
               /\ StartsWith(TagSuffix(x), TagSuffix(sel[c].hint))


\* the release and the prerelease marker of a tag that is not noise
TagVersion(tag) == MatchPrefix(SplitDash(StripV(tag))[1])
TagRelease(tag) == ReleaseOf(TagVersion(tag).version)
TagPrerelease(tag) == TagVersion(tag).prerelease
WellFormed(tag) == ~IsNoise(tag) /\ parse_docker_tag(tag).ok

\* the tags of call c that compete for its result: under a hint those with
\* the suffix of the hint, without the prerelease tags unless the hint has
\* a prerelease marker; without a hint those of the group the call ranks
Competes(c, x) ==
    /\ x \in Listed(c)
    /\ WellFormed(x)
    /\ IF Hinted(c)
       THEN /\ TagSuffix(x) = TagSuffix(sel[c].hint)
            /\ HintPrerelease(sel[c].hint) \/ TagPrerelease(x) = <<>>
       ELSE x \in {t.original : t \in Eligible(ParsedTags(sel[c].tags), NoHint)}

\* C14: the release of the returned tag, padded with zeros, is not less than
\* the release of any tag that competes with it, whatever the release of
\* the hint
C14_GreatestRelease ==
    \A c \in Calls :
        Returned(c) =>
            \A x \in Listed(c) :
                Competes(c, x) => ~PadLess(TagRelease(sel[c].result.tag), TagRelease(x))

\* under a hint the returned tag has a greater release than the hint and
\* than another tag of its group
C14_Witness ==
    \E c \in Calls :
        /\ Hinted(c) /\ Returned(c)
        /\ TagVersion(sel[c].hint).ok
        /\ PadLess(TagRelease(sel[c].hint), TagRelease(sel[c].result.tag))
        /\ TagRelease(sel[c].result.tag)[1] > TagRelease(sel[c].hint)[1]
        /\ \E x \in Listed(c) :
               Competes(c, x) /\ PadLess(TagRelease(x), TagRelease(sel[c].result.tag))


\* the well-formed tags of call c that have the suffix of its hint
SameSuffix(c) ==
    {x \in Listed(c) : WellFormed(x) /\ TagSuffix(x) = TagSuffix(sel[c].hint)}

\* C15: under a hint without prerelease marker no prerelease tag is
\* returned; under a hint with one the prerelease tags compete: the result
\* is a tag of greatest release among all tags with the suffix of the hint
C15_PrereleaseByHint ==
    \A c \in Calls :
        /\ Hinted(c) /\ ~HintPrerelease(sel[c].hint) /\ Returned(c)
               => TagPrerelease(sel[c].result.tag) = <<>>
        /\ Hinted(c) /\ HintPrerelease(sel[c].hint) /\ Answered(c)
               => IF SameSuffix(c) = {} THEN sel[c].result = NoneResult
                  ELSE /\ Returned(c)
                       /\ \A x \in SameSuffix(c) :
                              ~PadLess(TagRelease(sel[c].result.tag), TagRelease(x))

\* under a hint with a prerelease marker a prerelease tag is returned, of
\* greater release than a tag without marker in the list
C15_Witness ==
    \E c \in Calls :
        /\ Hinted(c) /\ HintPrerelease(sel[c].hint) /\ Returned(c)
        /\ TagPrerelease(sel[c].result.tag) # <<>>
        /\ \E x \in SameSuffix(c) :
               /\ TagPrerelease(x) = <<>>
               /\ PadLess(TagRelease(x), TagRelease(sel[c].result.tag))


\* the tags of call c that pass the filter, and those of them without suffix
Kept(c) == {x \in Listed(c) : WellFormed(x)}
Plain(c) == {x \in Kept(c) : TagSuffix(x) = <<>>}

\* tag r is a greatest of the tags xs: a tag of xs, and no tag of xs has a
\* greater release, but for prerelease tags when r is not one
GreatestOf(r, xs) ==
    /\ r \in xs
    /\ \A x \in xs :
           PadLess(TagRelease(r), TagRelease(x))
               => TagPrerelease(r) = <<>> /\ TagPrerelease(x) # <<>>

Stable(xs) == {x \in xs : TagPrerelease(x) = <<>>}

\* without a hint, over the tags xs: when all of them carry a prerelease
\* marker the result is one of them of greatest release; when some do not,
\* the result is one of those
PrereleaseLast(c, xs) ==
    ~Hinted(c) /\ Answered(c) /\ xs # {} =>
        /\ Returned(c)
        /\ IF Stable(xs) = {}
           THEN /\ sel[c].result.tag \in xs
                /\ \A x \in xs : ~PadLess(TagRelease(sel[c].result.tag), TagRelease(x))
           ELSE sel[c].result.tag \in Stable(xs)

SameTags(c, d) == Listed(c) = Listed(d) /\ sel[c].hint = sel[d].hint

\* tags x and y are level: the same padded release, both or neither with a
\* prerelease marker, and neither the greater as a Version
VersionGreater(a, b) ==
    LET x == Version(a)
        y == Version(b)
    IN  ~x.raised /\ ~y.raised /\ __gt__(x, y)
Level(x, y) ==
    /\ ~PadLess(TagRelease(x), TagRelease(y))
    /\ ~PadLess(TagRelease(y), TagRelease(x))
    /\ (TagPrerelease(x) = <<>>) = (TagPrerelease(y) = <<>>)
    /\ ~VersionGreater(x, y)
    /\ ~VersionGreater(y, x)
NoneLevel(c) ==
    \A x, y \in Listed(c) :
        Competes(c, x) /\ Competes(c, y) /\ x # y => ~Level(x, y)

C19_NeverRaises ==
    \A c \in Calls :
        /\ sel[c].result # Raised
        /\ Done(c) /\ Kept(c) = {} => sel[c].result = NoneResult


\* ------------------------------------------------------------------------
\* parse_docker_tag on its own: the tags one call is made with, written as
\* prefix, number, marker and suffix
\* ------------------------------------------------------------------------
TagPrefixes == {<<>>, <<"v">>, <<"V">>}
TagMarkers == {<<>>, <<"r", "c", "1">>, <<"a", "b", "c", "d">>}
TagSuffixes == {<<>>, <<"-", "a", "l", "p", "i", "n", "e">>, <<"-", "1", ".", "5">>}
\* a number of int_max_str_digits + 1 digits whose value is 999
ZerosThen999 == [k \in 1..(int_max_str_digits + 1) |-> IF k <= int_max_str_digits - 2 THEN "0" ELSE "9"]
TagNumbers ==
    {<<"0">>, <<"7">>, <<"9", "9", "9">>, <<"0", "9", "9", "9">>,
     <<"0", "0", "0", "0", "9", "9", "9">>, <<"1", "0", "0", "0">>,
     <<"0", "1", "0", "0", "0">>, <<"1", "2", "3", "4", "5", "6", "7">>,
     <<"2", "0", "2", "6", "0", "2", "0", "2">>,
     <<"2", "0", "2", "4", ".", "1", ".", "1", "5">>,
     <<"1", ".", "2", "0", "0", "0">>, <<"1", "0", "0", "0", ".", "1">>,
     <<"1", ".", ".", "2">>,
     TooManyDigits, ZerosThen999, <<"1", ".">> \o TooManyDigits}

ParseCall(tag) == [tag |-> tag, result |-> Pending]

\* result = parse_docker_tag(tag)
Parse ==
    /\ ptag # Idle
    /\ ptag.result = Pending
    /\ ptag' = [ptag EXCEPT !.result = parse_docker_tag(ptag.tag)]
    /\ UNCHANGED <<versionVars, sel, disp, helm, gh, scan>>

InitParse ==
    /\ form = <<>> /\ input = <<>> /\ obj = <<>> /\ text = <<>> /\ back = <<>>
    /\ sel = Idle /\ disp = Idle /\ helm = Idle /\ gh = Idle /\ scan = Idle
    /\ \E p \in TagPrefixes, n \in TagNumbers, m \in TagMarkers, s \in TagSuffixes :
           ptag = ParseCall(p \o n \o m \o s)

NextParse == Parse

SpecParse == InitParse /\ [][NextParse]_vars

\* the version segment of a tag: the tag without one leading v and without
\* everything from the first '-'
VersionSegment(tag) ==
    LET clean == IF tag # <<>> /\ tag[1] = "v" THEN SubSeq(tag, 2, Len(tag)) ELSE tag
        dashes == {k \in DOMAIN clean : clean[k] = "-"}
    IN  IF dashes = {} THEN clean
        ELSE SubSeq(clean, 1, (CHOOSE k \in dashes : \A j \in dashes : k <= j) - 1)

\* a segment that is one integer, its value being 1000 or more, and a
\* segment that is integers with dots between them
IsInteger(seg) == seg # <<>> /\ \A k \in DOMAIN seg : IsDigit(seg[k])
ThousandOrMore(seg) == \E k \in 1..(Len(seg) - 3) : seg[k] # "0"
IsDotted(seg) ==
    /\ seg # <<>> /\ IsDigit(seg[1]) /\ IsDigit(seg[Len(seg)])
    /\ \A k \in DOMAIN seg : IsDigit(seg[k]) \/ seg[k] = "."
    /\ \A k \in 1..(Len(seg) - 1) : ~(seg[k] = "." /\ seg[k + 1] = ".")
    /\ \E k \in DOMAIN seg : seg[k] = "."

\* the numbers a segment starts with: the digits and dots up to the marker
NumbersOf(seg) ==
    LET others == {k \in DOMAIN seg : ~(IsDigit(seg[k]) \/ seg[k] = ".")}
        e == IF others = {} THEN Len(seg)
             ELSE (CHOOSE k \in others : \A j \in others : k <= j) - 1
    IN  IF e >= 1 /\ seg[e] = "." THEN SubSeq(seg, 1, e - 1) ELSE SubSeq(seg, 1, e)

Parsed == ptag # Idle /\ ptag.result # Pending

\* the rule of the threshold and the fields of an accepted tag, for one call
ThresholdRule(tag, result) ==
    LET seg == VersionSegment(tag)
    IN  /\ IsInteger(seg) /\ ThousandOrMore(seg) => result = NoTag
        /\ IsInteger(seg) /\ ~ThousandOrMore(seg) => result.ok
        /\ IsDotted(seg) => result.ok
        /\ result.ok =>
               /\ result.original = tag
               /\ result.release # <<>>
               /\ result.release = Components(NumbersOf(seg))
               /\ Len(result.release) = 1 => result.release[1] < 1000

\* C21: a tag whose version segment is a dot-less integer of 1000 or more
\* gives None; a dot-less integer up to 999 and a dotted version are
\* accepted; an accepted tag gives its own spelling as 'original', the
\* non-empty list of its integer components as 'release', and a
\* one-component release below 1000
C21_Threshold == Parsed => ThresholdRule(ptag.tag, ptag.result)

\* the same for the tags of which no number has more digits than int() takes
WithinIntLimit(tag) ==
    \A i \in DOMAIN tag : i = 1 \/ ~IsDigit(tag[i - 1]) => DecimalRun(tag, i) <= int_max_str_digits
ThresholdWithinLimit == Parsed /\ WithinIntLimit(ptag.tag) => ThresholdRule(ptag.tag, ptag.result)


\* ------------------------------------------------------------------------
\* Part 3: dispatcher.py.  _version_cache is a cachetools.TTLCache bounded
\* by the summed _get_sizeof of its values; fetch_package_version awaits the
\* fetcher between its look into the cache and its store, so a call is two
\* steps and calls interleave there.
\* ------------------------------------------------------------------------
MaxCalls == 3

\* CACHE_MAX_SIZE_BYTES for PACKAGE_VERSION_CACHE_MAX_SIZE_MB = 0, 1 and
\* the default 64
CACHE_MAX_SIZE_BYTES(CACHE_MAX_SIZE_MB) == CACHE_MAX_SIZE_MB * 1024 * 1024
CacheSizesMB == {0, 1, 64}

\* the requests (ecosystem, package_name, version_hint)
PackageVersionRequests ==
    {[ecosystem |-> "npm", package_name |-> "express", version_hint |-> None],
     [ecosystem |-> "npm", package_name |-> "express", version_hint |-> <<"4">>]}

\* the values fetch_package_version returns; json_len is
\* len(item.model_dump_json())
PackageVersionResult(request, latest_version, json_len) ==
    [type |-> "PackageVersionResult", ecosystem |-> request.ecosystem,
     package_name |-> request.package_name, body |-> <<latest_version>>,
     json_len |-> json_len]
PackageVersionError(request, error, str_len) ==
    [type |-> "PackageVersionError", ecosystem |-> request.ecosystem,
     package_name |-> request.package_name, body |-> error,
     json_len |-> 64 + str_len]
\* an exception that leaves fetch_package_version
Escaped(exception) == [type |-> "escaped", body |-> <<exception>>]

\* what awaiting the fetcher gives: a result, an httpx.HTTPStatusError with
\* its response, or another Exception with its str(e), short or of megabytes
Returns(request) ==
    {[raises |-> "no", value |-> PackageVersionResult(request, v, 120)] : v \in {"1.0.0"}}
HTTPStatusErrors ==
    {[raises |-> "HTTPStatusError", status_code |-> 404, reason_phrase |-> "Not Found"],
     [raises |-> "HTTPStatusError", status_code |-> 500,
      reason_phrase |-> "Internal Server Error"]}
Exceptions ==
    {[raises |-> "Exception", str |-> "<html>...", str_len |-> 60000],
     [raises |-> "Exception", str |-> "<html>......", str_len |-> 7000000]}
FetcherOutcomes(request) == Returns(request) \cup HTTPStatusErrors \cup Exceptions

_get_sizeof(item) ==
    IF item.type \in {"PackageVersionResult", "PackageVersionError"}
    THEN item.json_len * 10
    ELSE 1024

\* a key without the hint, and a cache in which no key is ever found
CacheKeyNoHint(request) == <<request.ecosystem, request.package_name>>
KeysNone(cache) == {}
cache_key(request) == <<request.ecosystem, request.package_name, request.version_hint>>

\* the cache: its entries, the oldest first
Keys(cache) == {cache[k].key : k \in DOMAIN cache}
Lookup(cache, key) == cache[CHOOSE k \in DOMAIN cache : cache[k].key = key].value
RECURSIVE currsize(_)
currsize(cache) ==
    IF cache = <<>> THEN 0 ELSE _get_sizeof(Head(cache).value) + currsize(Tail(cache))

\* while self.currsize + size > maxsize: self.popitem()
RECURSIVE PopItems(_, _, _)
PopItems(cache, size, maxsize) ==
    IF cache # <<>> /\ currsize(cache) + size > maxsize
    THEN PopItems(Tail(cache), size, maxsize)
    ELSE cache

\* _version_cache[key] = value: ValueError('value too large') when the
\* value alone is larger than maxsize; else the oldest entries leave until
\* the value fits, and the entry is the newest
SetItem(cache, maxsize, key, value) ==
    LET size == _get_sizeof(value)
        room == IF key \notin Keys(cache) \/ _get_sizeof(Lookup(cache, key)) < size
                THEN PopItems(cache, size, maxsize)
                ELSE cache
    IN  IF size > maxsize THEN [raised |-> TRUE, cache |-> cache]
        ELSE [raised |-> FALSE,
              cache |-> SelectSeq(room, LAMBDA e : e.key # key)
                            \o <<[key |-> key, value |-> value]>>]

\* the except clauses: the error a raised exception is turned into
ErrorOf(request, e) ==
    IF e.raises = "HTTPStatusError"
    THEN IF e.status_code = 404
         THEN PackageVersionError(request,
                  <<"Package '", request.package_name, "' not found">>, 30)
         ELSE PackageVersionError(request,
                  <<"HTTP error ", ToString(e.status_code), ": ", e.reason_phrase>>, 40)
    ELSE PackageVersionError(request,
             <<"Failed to fetch package version: ", e.str>>, 33 + e.str_len)

\* the store of an except clause and its return; an exception raised there
\* leaves the function
StoreError(cache, maxsize, request, e) ==
    LET result == ErrorOf(request, e)
        stored == SetItem(cache, maxsize, cache_key(request), result)
    IN  IF stored.raised THEN [cache |-> cache, reply |-> Escaped("ValueError")]
        ELSE [cache |-> stored.cache, reply |-> result]

\* lines 65-116 of fetch_package_version, from the end of the await on
AfterFetch(cache, maxsize, request, outcome) ==
    IF outcome.raises = "no"
    THEN LET stored == SetItem(cache, maxsize, cache_key(request), outcome.value)
         IN  IF stored.raised
             THEN StoreError(cache, maxsize, request,
                      [raises |-> "Exception", str |-> "value too large", str_len |-> 15])
             ELSE [cache |-> stored.cache, reply |-> outcome.value]
    ELSE StoreError(cache, maxsize, request, outcome)

NoCall == [at |-> "idle"]

\* ghosts: disp.now counts the steps of the calls and disp.log lists the
\* stores in the order they are made (the call and the value).  An entry's
\* id is the place of its store in the log, and its since is the id of the
\* first store from which on the key has been in the cache without a break.
\* A call keeps when it began and ended, the ids and the sinces of the
\* entries in the cache when it began, and the entry its reply was served
\* from or stored in
EntryIds(cache) == {cache[k].id : k \in DOMAIN cache}
EntrySinces(cache) == {cache[k].since : k \in DOMAIN cache}
EntryOf(cache, key) == cache[CHOOSE k \in DOMAIN cache : cache[k].key = key]
Stamped(before, cache, id) ==
    [k \in DOMAIN cache |->
        IF k = Len(cache)
        THEN [key |-> cache[k].key, value |-> cache[k].value, id |-> id,
              since |-> IF cache[k].key \in Keys(before)
                        THEN EntryOf(before, cache[k].key).since ELSE id]
        ELSE cache[k]]

\* fetch_package_version(request) up to its return from the cache or to
\* its await; the calls are numbered in the order they start
Begin(c, request) ==
    /\ disp # Idle
    /\ disp.calls[c] = NoCall
    /\ \A b \in 1..(c - 1) : disp.calls[b] # NoCall
    /\ disp' = [disp EXCEPT
                   !.now = @ + 1,
                   !.calls[c] =
                       IF cache_key(request) \in Keys(disp.cache)
                       THEN [at |-> "done", request |-> request, fetched |-> FALSE,
                             reply |-> Lookup(disp.cache, cache_key(request)),
                             began |-> disp.now + 1, ended |-> disp.now + 1,
                             live |-> EntryIds(disp.cache),
                             sinces |-> EntrySinces(disp.cache),
                             entry |-> EntryOf(disp.cache, cache_key(request)).id,
                             since |-> EntryOf(disp.cache, cache_key(request)).since]
                       ELSE [at |-> "await", request |-> request,
                             began |-> disp.now + 1,
                             live |-> EntryIds(disp.cache),
                             sinces |-> EntrySinces(disp.cache)]]
    /\ UNCHANGED <<form, input, obj, text, back, sel>>
    /\ UNCHANGED beyondCache

\* the fetcher of call c completes with outcome; the rest of the function
Complete(c, outcome) ==
    /\ disp # Idle
    /\ disp.calls[c].at = "await"
    /\ outcome \in FetcherOutcomes(disp.calls[c].request)
    /\ LET after == AfterFetch(disp.cache, disp.maxsize, disp.calls[c].request, outcome)
           stored == after.reply.type # "escaped"
           id == Len(disp.log) + 1
           cache == IF stored THEN Stamped(disp.cache, after.cache, id) ELSE after.cache
       IN  disp' = [disp EXCEPT
                       !.now = @ + 1,
                       !.cache = cache,
                       !.log = IF stored THEN Append(@, [call |-> c, value |-> after.reply])
                               ELSE @,
                       !.calls[c] = [at |-> "done", request |-> disp.calls[c].request,
                                     fetched |-> TRUE, outcome |-> outcome,
                                     reply |-> after.reply,
                                     began |-> disp.calls[c].began, ended |-> disp.now + 1,
                                     live |-> disp.calls[c].live,
                                     sinces |-> disp.calls[c].sinces,
                                     entry |-> IF stored THEN id ELSE 0,
                                     since |-> IF stored THEN cache[Len(cache)].since ELSE 0]]
    /\ UNCHANGED <<form, input, obj, text, back, sel>>
    /\ UNCHANGED beyondCache

\* CACHE_TTL seconds after its store the oldest entry is gone
Expire ==
    /\ disp # Idle
    /\ disp.cache # <<>>
    /\ disp' = [disp EXCEPT !.cache = Tail(disp.cache)]
    /\ UNCHANGED <<form, input, obj, text, back, sel>>
    /\ UNCHANGED beyondCache

InitCache ==
    /\ form = <<>> /\ input = <<>> /\ obj = <<>> /\ text = <<>> /\ back = <<>>
    /\ sel = Idle
    /\ ptag = Idle /\ helm = Idle /\ gh = Idle /\ scan = Idle
    /\ \E mb \in CacheSizesMB :
           disp = [maxsize |-> CACHE_MAX_SIZE_BYTES(mb), cache |-> <<>>, log |-> <<>>, now |-> 0,
                   calls |-> [c \in 1..MaxCalls |-> NoCall]]

NextCache ==
    \/ \E c \in 1..MaxCalls, request \in PackageVersionRequests : Begin(c, request)
    \/ \E c \in 1..MaxCalls :
           \E outcome \in HTTPStatusErrors \cup Exceptions
                          \cup UNION {Returns(r) : r \in PackageVersionRequests} :
               Complete(c, outcome)
    \/ Expire

SpecCache == InitCache /\ [][NextCache]_vars

\* ------------------------------------------------------------------------
\* Claims about the dispatcher
\* ------------------------------------------------------------------------
DispCalls == IF disp = Idle THEN {} ELSE {c \in DOMAIN disp.calls : disp.calls[c].at = "done"}

\* C20: every call that ends returns a PackageVersionResult or a
\* PackageVersionError; no exception leaves fetch_package_version
C20_NoEscape ==
    \A c \in DispCalls :
        disp.calls[c].reply.type \in {"PackageVersionResult", "PackageVersionError"}

\* the calls that ended after awaiting their fetcher
Fetched == {c \in DispCalls : disp.calls[c].fetched}

\* the message the claim gives for what the fetcher raised
NotFoundMessage(request) == <<"Package '", request.package_name, "' not found">>
HTTPErrorMessage(e) == <<"HTTP error ", ToString(e.status_code), ": ", e.reason_phrase>>
FailedPrefix == "Failed to fetch package version: "
MessageFits(call) ==
    LET e == call.outcome
    IN  /\ e.raises = "HTTPStatusError" =>
               /\ call.reply.ecosystem = call.request.ecosystem
               /\ call.reply.package_name = call.request.package_name
               /\ call.reply.body = IF e.status_code = 404 THEN NotFoundMessage(call.request)
                                    ELSE HTTPErrorMessage(e)
        /\ e.raises = "Exception" => call.reply.body[1] = FailedPrefix

\* C22: a call whose fetcher raised returns a PackageVersionError of the
\* request's ecosystem and package_name; its message is "Package '<name>'
\* not found" for status 404, "HTTP error <code>: <reason>" for any other
\* status, and starts with 'Failed to fetch package version: ' for any
\* other exception
C22_ErrorMessages ==
    \A c \in Fetched :
        disp.calls[c].outcome.raises # "no" =>
            /\ disp.calls[c].reply.type = "PackageVersionError"
            /\ MessageFits(disp.calls[c])

\* the messages of the calls that return
MessagesWhenReturned ==
    \A c \in Fetched :
        disp.calls[c].outcome.raises # "no" /\ disp.calls[c].reply.type # "escaped" =>
            /\ disp.calls[c].reply.type = "PackageVersionError"
            /\ MessageFits(disp.calls[c])

\* the calls that have started, and the calls whose value a cache entry held
\* when they returned
Started == {c \in 1..MaxCalls : disp # Idle /\ disp.calls[c] # NoCall}
Valued == {c \in DispCalls : disp.calls[c].entry # 0}
Later(c, d) ==
    /\ disp.calls[d].began > disp.calls[c].ended
    /\ disp.calls[d].request = disp.calls[c].request
Served(c, d) ==
    /\ disp.calls[d].at = "done"
    /\ ~disp.calls[d].fetched
    /\ disp.calls[d].reply = disp.calls[c].reply

Storer(i) == disp.calls[disp.log[i].call].request
Uncached(d) == \A i \in disp.calls[d].live : Storer(i) # disp.calls[d].request
Overlap(c, d) ==
    /\ c # d
    /\ disp.calls[c].request = disp.calls[d].request
    /\ disp.calls[c].began < disp.calls[d].began
    /\ disp.calls[c].at = "done" => disp.calls[d].began < disp.calls[c].ended
OwnValue(c) ==
    /\ disp.calls[c].entry # 0
    /\ Storer(disp.calls[c].entry) = disp.calls[c].request
    /\ disp.log[disp.calls[c].entry].value = disp.calls[c].reply
    /\ disp.calls[c].reply.ecosystem = disp.calls[c].request.ecosystem
    /\ disp.calls[c].reply.package_name = disp.calls[c].request.package_name
    /\ disp.calls[c].fetched /\ disp.calls[c].outcome.raises = "no" =>
           disp.calls[c].reply = disp.calls[c].outcome.value
OwnEntry(e) ==
    /\ e.key = <<Storer(e.id).ecosystem, Storer(e.id).package_name, Storer(e.id).version_hint>>
    /\ e.value = disp.log[e.id].value
    /\ \A i \in DOMAIN disp.log : Storer(i) = Storer(e.id) => i <= e.id

\* C28: under every interleaving, a call that returns a value returns one
\* that was fetched or stored for its own request; every cache entry maps
\* the key of a request to the value that the last store of a call for that
\* request gave it; and a call for a key that is not in the cache when it
\* begins runs its own fetch, also while another call for the key is waiting
C28_OwnKey ==
    disp # Idle =>
        /\ \A c \in DispCalls : disp.calls[c].reply.type # "escaped" => OwnValue(c)
        /\ \A k \in DOMAIN disp.cache : OwnEntry(disp.cache[k])
        /\ \A c \in Started : \A d \in Started :
               Overlap(c, d) /\ Uncached(d) =>
                   /\ disp.calls[d].at = "done" => disp.calls[d].fetched
                   /\ disp.calls[c].at = "done" => disp.calls[c].fetched

\* two calls for one key wait at the same time, the one that began later
\* stores first, and the entry holds the other value of the one that stored
\* last
C28_Witness ==
    \E c \in Fetched : \E d \in Fetched :
        /\ Overlap(c, d)
        /\ disp.calls[d].entry # 0
        /\ disp.calls[d].entry < disp.calls[c].entry
        /\ disp.calls[c].reply # disp.calls[d].reply
        /\ cache_key(disp.calls[c].request) \in Keys(disp.cache)
        /\ Lookup(disp.cache, cache_key(disp.calls[c].request)) = disp.calls[c].reply

(***************************************************************************)
(* Part 4: fetchers/helm.py.  fetch_helm_chartmuseum_version walks the     *)
(* entries that _extract_helm_chart_versions_memory_efficient gave for the *)
(* chart and keeps the greatest stable Version; one step of the model is   *)
(* one pass through the loop body.  The entries come from YAML, so a value *)
(* is a scalar with its type.                                              *)
(***************************************************************************)
MaxEntries == 3

YamlStr(s) == [tag |-> "str", value |-> s]
YamlFloat(s) == [tag |-> "float", value |-> s]
YamlNull == [tag |-> "null", value |-> <<>>]

\* the exceptions of Version(version) that are not InvalidVersion: the
\* TypeError of _regex.fullmatch on a value that is no str, the ValueError
\* of int() on a release of more digits than it converts
TypeError == [raised |-> TRUE, type |-> "TypeError"]
ValueError == [raised |-> TRUE, type |-> "ValueError"]
LongRelease(s) == Len(s) > int_max_str_digits /\ \A k \in DOMAIN s : IsDigit(s[k])

\* Version(version) for a value of an entry
VersionOfEntry(version) ==
    IF version.tag # "str" THEN TypeError
    ELSE IF LongRelease(version.value) THEN ValueError
    ELSE Version(version.value)

\* Version.is_prerelease
is_prerelease(self) == dev(self) # None \/ pre(self) # None

\* not version
Falsy(version) == version.tag = "null" \/ (version.tag = "str" /\ version.value = <<>>)

\* the index entries of the chart: version and deprecated as written, digest
\* and created told apart by the entry's place in the list
ChartVersion(version, deprecated) == [version |-> version, deprecated |-> deprecated]
EntryPool ==
    {ChartVersion(YamlStr(<<"1", ".", "2", ".", "3">>), FALSE),
     ChartVersion(YamlStr(<<"v", "1", ".", "2", ".", "3">>), FALSE),
     ChartVersion(YamlStr(<<"1", ".", "1", "0", ".", "0">>), FALSE),
     ChartVersion(YamlStr(<<"1", ".", "2">>), FALSE),
     ChartVersion(YamlStr(<<"1", ".", "2", ".", "0">>), FALSE),
     ChartVersion(YamlStr(<<"1", ".", "2", ".", "3", "-", "1">>), FALSE),
     ChartVersion(YamlStr(<<"2", ".", "0", ".", "0", "r", "c", "1">>), FALSE),
     ChartVersion(YamlStr(<<"2", ".", "0", ".", "0", ".", "d", "e", "v", "1">>), FALSE),
     ChartVersion(YamlStr(<<"2", ".", "0", ".", "0">>), TRUE),
     ChartVersion(YamlStr(<<"1", ".", "2", ".", "3", "+", "b", "u", "i", "l", "d", "5">>), FALSE),
     ChartVersion(YamlNull, FALSE),
     ChartVersion(YamlFloat(<<"1", ".", "2">>), FALSE),
     ChartVersion(YamlStr(TooManyDigits), FALSE)}
DigestOf(k) == k
CreatedOf(k) == 100 + k
ChartVersionLists ==
    UNION {[1..n -> EntryPool] : n \in 0..MaxEntries}
Entry(chart_versions, k) ==
    [version |-> chart_versions[k].version, deprecated |-> chart_versions[k].deprecated,
     digest |-> DigestOf(k), created |-> CreatedOf(k)]

HelmCall(chart_versions) ==
    [chart_versions |-> [k \in DOMAIN chart_versions |-> Entry(chart_versions, k)],
     at |-> "start", i |-> 0,
     latest_version |-> NoObject, latest_digest |-> 0, latest_created |-> 0,
     result |-> Pending]

HelmRaised(exception) == [kind |-> "raised", exception |-> exception]
HelmResult(latest_version, digest, published_on) ==
    [kind |-> "result", latest_version |-> latest_version, digest |-> digest,
     published_on |-> published_on]

\* lines 161-167: if not chart_versions: raise
HelmStart ==
    /\ helm # Idle
    /\ helm.at = "start"
    /\ helm' = IF helm.chart_versions = <<>>
               THEN [helm EXCEPT !.at = "raised", !.result = HelmRaised("Exception")]
               ELSE [helm EXCEPT !.at = "loop", !.i = 1]
    /\ UNCHANGED <<versionVars, sel, disp, ptag, gh, scan>>

\* lines 169-190, the body of the loop for entry h.i: the locals after it,
\* or the exception that leaves the function
LoopBody(h) ==
    LET version_entry == h.chart_versions[h.i]
        next == [h EXCEPT !.i = h.i + 1]
        v_obj == VersionOfEntry(version_entry.version)
    IN  IF version_entry.deprecated THEN next
        ELSE IF Falsy(version_entry.version) THEN next
        ELSE IF v_obj = InvalidVersion THEN next
        ELSE IF v_obj.raised THEN [h EXCEPT !.at = "raised", !.result = HelmRaised(v_obj.type)]
        ELSE IF is_prerelease(v_obj) THEN next
        ELSE IF h.latest_version = NoObject \/ __gt__(v_obj, h.latest_version)
             THEN [next EXCEPT !.latest_version = v_obj,
                               !.latest_digest = version_entry.digest,
                               !.latest_created = version_entry.created]
             ELSE next

HelmVisit ==
    /\ helm # Idle
    /\ helm.at = "loop"
    /\ helm.i <= Len(helm.chart_versions)
    /\ helm' = LoopBody(helm)
    /\ UNCHANGED <<versionVars, sel, disp, ptag, gh, scan>>

\* lines 192-201: the raise for no version, or the result
HelmReturn ==
    /\ helm # Idle
    /\ helm.at = "loop"
    /\ helm.i > Len(helm.chart_versions)
    /\ helm' = IF helm.latest_version = NoObject
               THEN [helm EXCEPT !.at = "raised", !.result = HelmRaised("Exception")]
               ELSE [helm EXCEPT !.at = "returned",
                                 !.result = HelmResult(__str__(helm.latest_version),
                                                helm.latest_digest, helm.latest_created)]
    /\ UNCHANGED <<versionVars, sel, disp, ptag, gh, scan>>

InitHelm ==
    /\ form = <<>> /\ input = <<>> /\ obj = <<>> /\ text = <<>> /\ back = <<>>
    /\ sel = Idle /\ disp = Idle /\ ptag = Idle /\ gh = Idle /\ scan = Idle
    /\ \E l \in ChartVersionLists : helm = HelmCall(l)

NextHelm == HelmStart \/ HelmVisit \/ HelmReturn

SpecHelm == InitHelm /\ [][NextHelm]_vars

\* ------------------------------------------------------------------------
\* Claims about fetch_helm_chartmuseum_version
\* ------------------------------------------------------------------------
HelmDone == helm # Idle /\ helm.at \in {"returned", "raised"}

\* the version of an entry parses: Version(version) gives an object
Parses(version) == ~VersionOfEntry(version).raised
\* the entries the claim selects among, by their places
Qualifying(chart_versions) ==
    {k \in DOMAIN chart_versions :
        /\ ~chart_versions[k].deprecated
        /\ ~Falsy(chart_versions[k].version)
        /\ Parses(chart_versions[k].version)
        /\ ~is_prerelease(VersionOfEntry(chart_versions[k].version))}
VersionAt(chart_versions, k) == VersionOfEntry(chart_versions[k].version)

\* entry j is the one reported: a greatest of the qualifying entries, the
\* first of those level with it, and the digest and created are its own
Reported(h, j) ==
    LET qualifying == Qualifying(h.chart_versions)
    IN  /\ j \in qualifying
        /\ h.result.digest = h.chart_versions[j].digest
        /\ h.result.published_on = h.chart_versions[j].created
        /\ \A k \in qualifying :
               ~__gt__(VersionAt(h.chart_versions, k), VersionAt(h.chart_versions, j))
        /\ \A k \in qualifying :
               k < j => __gt__(VersionAt(h.chart_versions, j), VersionAt(h.chart_versions, k))
SelectionRule(h) ==
    IF Qualifying(h.chart_versions) = {} THEN h.at = "raised"
    ELSE h.at = "returned" /\ \E j \in DOMAIN h.chart_versions : Reported(h, j)

\* C23: the call reports a greatest entry among those that are not
\* deprecated, whose version parses and is no prerelease, the first on
\* ties, with that entry's digest and created; entries that do not parse
\* are skipped without ending the call; it raises when no entry qualifies
C23_Selection == HelmDone => SelectionRule(helm)

\* the same for the lists in which every version that is looked at is a
\* str of which int() takes the numbers
Readable(e) ==
    e.deprecated \/ Falsy(e.version)
    \/ (e.version.tag = "str" /\ ~LongRelease(e.version.value))
SelectionOfReadable ==
    HelmDone /\ (\A k \in DOMAIN helm.chart_versions : Readable(helm.chart_versions[k]))
        => SelectionRule(helm)

\* C24: the latest_version reported is the version string of the selected
\* entry as the index writes it
C24_Verbatim ==
    helm # Idle /\ helm.at = "returned" =>
        \E j \in DOMAIN helm.chart_versions :
            /\ helm.result.digest = helm.chart_versions[j].digest
            /\ helm.result.latest_version = helm.chart_versions[j].version.value

\* what is reported instead: str(Version(version)) of the selected entry
ReportedCanonical ==
    helm # Idle /\ helm.at = "returned" =>
        \E j \in DOMAIN helm.chart_versions :
            /\ helm.result.digest = helm.chart_versions[j].digest
            /\ helm.result.latest_version = __str__(VersionAt(helm.chart_versions, j))

(***************************************************************************)
(* Part 5: get_github_actions_pkg/functions.py and utils/github.py.        *)
(* fetch_github_action asks GitHub for the tags, for the commit of the tag *)
(* it selects, for action.yml and action.yaml and for the README; one step *)
(* of the model is the code from one awaited request to the next, the      *)
(* response being drawn by the step.  gh.requests lists the requests made. *)
(***************************************************************************)
MaxTagNames == 3

StatusCodes == {200, 404, 500}
reason_phrase(status_code) ==
    IF status_code = 404 THEN "Not Found" ELSE "Internal Server Error"

\* what response.text of an action file is to yaml.safe_load and to the
\* lines that read it: a mapping, nothing (None), or no YAML at all
ActionFiles == {"mapping", "empty", "invalid"}

\* the tag names GitHub lists, newest first; the sha is told by the place
TagNamePool ==
    {<<"v", "1", ".", "2", ".", "3">>, <<"1", ".", "0", ".", "0">>,
     <<"2", ".", "0", ".", "0", "r", "c", "1">>, <<"v", "3", ".", "0", "-", "d", "e", "v", "1">>,
     <<"n", "i", "g", "h", "t", "l", "y">>}
TagNameLists == UNION {[1..n -> TagNamePool] : n \in 0..MaxTagNames}
GitTags(names) == [k \in DOMAIN names |-> [name |-> names[k], sha |-> k]]

ActionNames == {"actions/checkout", "checkout", "actions/checkout/sub"}
\* len(action_name.split("/"))
PartsOf(action_name) ==
    IF action_name = "actions/checkout" THEN 2
    ELSE IF action_name = "checkout" THEN 1 ELSE 3

GitHubActionResult(name, latest_version, digest, metadata, readme) ==
    [type |-> "GitHubActionResult", name |-> name, latest_version |-> latest_version,
     digest |-> digest, metadata |-> metadata, readme |-> readme]
GitHubActionError(name, error) ==
    [type |-> "GitHubActionError", name |-> name, error |-> error]

\* the except clauses of fetch_github_action
HTTPStatusErrorOf(action_name, status_code) ==
    GitHubActionError(action_name,
        IF status_code = 404 THEN <<"Action '", action_name, "' not found on GitHub">>
        ELSE <<"HTTP error ", ToString(status_code), ": ", reason_phrase(status_code)>>)
ExceptionOf(action_name, str_e) ==
    GitHubActionError(action_name, <<"Failed to fetch GitHub action: ", str_e>>)

\* Version(tag["name"]) of a JSON string
VersionOfName(name) == VersionOfEntry(YamlStr(name))

\* mutant of FirstStable: a prerelease is taken as well
FirstParseable(tags, k) ==
    LET parseable == {j \in k..Len(tags) : ~VersionOfName(tags[j].name).raised}
    IN  IF parseable = {} THEN 0 ELSE CHOOSE j \in parseable : \A i \in parseable : j <= i

\* the loop of lines 40-47 from place k on: the place of the tag it breaks
\* at, or 0 when it runs to the end
RECURSIVE FirstStable(_, _)
FirstStable(tags, k) ==
    IF k > Len(tags) THEN 0
    ELSE LET version == VersionOfName(tags[k].name)
         IN  IF version.raised THEN FirstStable(tags, k + 1)
             ELSE IF ~is_prerelease(version) THEN k
             ELSE FirstStable(tags, k + 1)

\* lines 38-50: target_tag
target_tag(tags) == IF FirstStable(tags, 1) = 0 THEN tags[1] ELSE tags[FirstStable(tags, 1)]

GhCall(action_name, include_readme) ==
    [action_name |-> action_name, include_readme |-> include_readme, at |-> "start",
     requests |-> <<>>, tags |-> <<>>, target_tag |-> [name |-> <<>>, sha |-> 0],
     metadata |-> "none", result |-> Pending]

Request(url, status_code) == [url |-> url, status_code |-> status_code]
GhEnd(g, result) == [g EXCEPT !.at = "done", !.result = result]

\* fetch_github_action, lines 97-107: the action name is split
GhParse ==
    /\ gh # Idle
    /\ gh.at = "start"
    /\ gh' = IF PartsOf(gh.action_name) # 2
             THEN GhEnd(gh, ExceptionOf(gh.action_name, "Invalid action name format"))
             ELSE [gh EXCEPT !.at = "tags"]
    /\ UNCHANGED <<versionVars, sel, disp, ptag, helm, scan>>

\* fetch_latest_github_tag, lines 27-50: the request for the tags and the
\* choice of target_tag
GhTags(status_code, names) ==
    /\ gh # Idle
    /\ gh.at = "tags"
    /\ LET asked == [gh EXCEPT !.requests = Append(@, Request("tags", status_code))]
       IN  gh' = IF status_code # 200
                 THEN GhEnd(asked, HTTPStatusErrorOf(gh.action_name, status_code))
                 ELSE IF names = <<>>
                 THEN GhEnd([asked EXCEPT !.tags = <<>>],
                            ExceptionOf(gh.action_name, "No tags found"))
                 ELSE [asked EXCEPT !.at = "commit", !.tags = GitTags(names),
                                    !.target_tag = target_tag(GitTags(names))]
    /\ UNCHANGED <<versionVars, sel, disp, ptag, helm, scan>>

\* fetch_latest_github_tag, lines 52-61: the request for the commit
GhCommit(status_code) ==
    /\ gh # Idle
    /\ gh.at = "commit"
    /\ LET asked == [gh EXCEPT !.requests = Append(@, Request("commit", status_code))]
       IN  gh' = IF status_code # 200
                 THEN GhEnd(asked, HTTPStatusErrorOf(gh.action_name, status_code))
                 ELSE [asked EXCEPT !.at = "action.yml"]
    /\ UNCHANGED <<versionVars, sel, disp, ptag, helm, scan>>

\* what fetch_github_action does with the metadata: the README is asked
\* for, or the result returned
AfterMetadata(g) ==
    IF g.include_readme THEN [g EXCEPT !.at = "README.md"]
    ELSE GhEnd(g, GitHubActionResult(g.action_name, g.target_tag.name, g.target_tag.sha,
                                     g.metadata, None))

\* mutant of MetadataStep: any HTTP error leads on to the next filename
MetadataStepAnyError(g, filename, status_code, file) ==
    LET asked == [g EXCEPT !.requests = Append(@, Request(filename, status_code))]
    IN  IF status_code = 200
        THEN IF file = "invalid" THEN GhEnd(asked, ExceptionOf(g.action_name, "YAMLError"))
             ELSE IF file = "empty" THEN GhEnd(asked, ExceptionOf(g.action_name, "TypeError"))
             ELSE AfterMetadata([asked EXCEPT !.metadata = file])
        ELSE IF filename = "action.yml" THEN [asked EXCEPT !.at = "action.yaml"]
        ELSE GhEnd(asked, ExceptionOf(g.action_name, "No action.yml or action.yaml found"))

\* fetch_github_action_metadata, lines 28-53, one pass of the loop for
\* filename, and what fetch_github_action makes of its outcome
MetadataStep(g, filename, status_code, file) ==
    LET asked == [g EXCEPT !.requests = Append(@, Request(filename, status_code))]
    IN  IF status_code = 200
        THEN IF file = "invalid" THEN GhEnd(asked, ExceptionOf(g.action_name, "YAMLError"))
             ELSE IF file = "empty" THEN GhEnd(asked, ExceptionOf(g.action_name, "TypeError"))
             ELSE AfterMetadata([asked EXCEPT !.metadata = file])
        ELSE IF status_code = 404
        THEN IF filename = "action.yml" THEN [asked EXCEPT !.at = "action.yaml"]
             ELSE GhEnd(asked, ExceptionOf(g.action_name, "No action.yml or action.yaml found"))
        ELSE GhEnd(asked, HTTPStatusErrorOf(g.action_name, status_code))

GhMetadata(status_code, file) ==
    /\ gh # Idle
    /\ gh.at \in {"action.yml", "action.yaml"}
    /\ gh' = MetadataStep(gh, gh.at, status_code, file)
    /\ UNCHANGED <<versionVars, sel, disp, ptag, helm, scan>>

\* fetch_github_action_readme, lines 73-82, and the return of lines 119-125
GhReadme(status_code) ==
    /\ gh # Idle
    /\ gh.at = "README.md"
    /\ LET asked == [gh EXCEPT !.requests = Append(@, Request("README.md", status_code))]
       IN  gh' = IF status_code \in {200, 404}
                 THEN GhEnd(asked, GitHubActionResult(gh.action_name, gh.target_tag.name,
                                       gh.target_tag.sha, gh.metadata,
                                       IF status_code = 200 THEN "text" ELSE None))
                 ELSE GhEnd(asked, HTTPStatusErrorOf(gh.action_name, status_code))
    /\ UNCHANGED <<versionVars, sel, disp, ptag, helm, scan>>

InitGitHub ==
    /\ form = <<>> /\ input = <<>> /\ obj = <<>> /\ text = <<>> /\ back = <<>>
    /\ sel = Idle /\ disp = Idle /\ ptag = Idle /\ helm = Idle /\ scan = Idle
    /\ \E action_name \in ActionNames, include_readme \in BOOLEAN :
           gh = GhCall(action_name, include_readme)

NextGitHub ==
    \/ GhParse
    \/ \E status_code \in StatusCodes, names \in TagNameLists : GhTags(status_code, names)
    \/ \E status_code \in StatusCodes : GhCommit(status_code)
    \/ \E status_code \in StatusCodes, file \in ActionFiles : GhMetadata(status_code, file)
    \/ \E status_code \in StatusCodes : GhReadme(status_code)

SpecGitHub == InitGitHub /\ [][NextGitHub]_vars

\* ------------------------------------------------------------------------
\* Claims about fetch_latest_github_tag and fetch_github_action_metadata
\* ------------------------------------------------------------------------
\* GitHub has answered the request for the tags with a list
Listing == gh # Idle /\ gh.requests # <<>> /\ gh.requests[1] = Request("tags", 200)
GhDone == gh # Idle /\ gh.at = "done"

\* the places of the tags whose name parses as a Version and is no prerelease
StableTags(tags) ==
    {k \in DOMAIN tags :
        LET version == VersionOfName(tags[k].name)
        IN  ~version.raised /\ ~is_prerelease(version)}
Earliest(places) == CHOOSE k \in places : \A j \in places : k <= j

\* C25: the tag selected is the first of the list whose name parses and is
\* no prerelease, and the first tag of the list only when there is none
\* such; an empty list makes the call raise; so the tag reported is
\* parseable and stable whenever the list holds such a tag
C25_FirstStable ==
    Listing =>
        LET stable == StableTags(gh.tags)
        IN  /\ gh.tags = <<>> =>
                   GhDone /\ gh.result = ExceptionOf(gh.action_name, "No tags found")
            /\ gh.tags # <<>> =>
                   /\ gh.target_tag = IF stable = {} THEN gh.tags[1]
                                      ELSE gh.tags[Earliest(stable)]
                   /\ GhDone /\ gh.result.type = "GitHubActionResult" =>
                          /\ gh.result.latest_version = gh.target_tag.name
                          /\ gh.result.digest = gh.target_tag.sha
                          /\ stable # {} =>
                                 \E k \in stable : gh.result.latest_version = gh.tags[k].name

\* a result that reports a stable tag standing behind a prerelease and an
\* unparseable tag
C25_Witness ==
    /\ Listing /\ GhDone /\ gh.result.type = "GitHubActionResult"
    /\ Len(gh.tags) = 3
    /\ ~VersionOfName(gh.tags[1].name).raised /\ is_prerelease(VersionOfName(gh.tags[1].name))
    /\ VersionOfName(gh.tags[2].name).raised
    /\ gh.target_tag = gh.tags[3]
    /\ gh.result.latest_version = gh.tags[3].name

\* the places of the log where a file of the action was asked for
AskedFor(filename) == {p \in DOMAIN gh.requests : gh.requests[p].url = filename}
NotFoundError == ExceptionOf(gh.action_name, "No action.yml or action.yaml found")

\* C26: action.yaml is asked for only right after action.yml gave 404; a
\* success on action.yml leaves action.yaml unasked; an HTTP error other
\* than 404 on either file is the last request and the error of the call;
\* 404 on both ends the call with the not-found error, returned as a
\* GitHubActionError
C26_YmlThenYaml ==
    gh # Idle =>
        /\ \A p \in AskedFor("action.yaml") :
               p > 1 /\ gh.requests[p - 1] = Request("action.yml", 404)
        /\ (\E p \in AskedFor("action.yml") : gh.requests[p].status_code = 200)
               => AskedFor("action.yaml") = {}
        /\ \A p \in AskedFor("action.yml") \cup AskedFor("action.yaml") :
               gh.requests[p].status_code \notin {200, 404} =>
                   /\ p = Len(gh.requests)
                   /\ GhDone
                   /\ gh.result = HTTPStatusErrorOf(gh.action_name, gh.requests[p].status_code)
        /\ \A p \in AskedFor("action.yaml") :
               gh.requests[p].status_code = 404 =>
                   /\ p = Len(gh.requests)
                   /\ GhDone
                   /\ gh.result.type = "GitHubActionError"
                   /\ gh.result = NotFoundError

\* both files were asked for and both gave 404
C26_Witness ==
    /\ GhDone
    /\ \E p \in DOMAIN gh.requests :
           /\ p > 1
           /\ gh.requests[p - 1] = Request("action.yml", 404)
           /\ gh.requests[p] = Request("action.yaml", 404)
    /\ gh.result = NotFoundError

(***************************************************************************)
(* Part 6: fetchers/helm.py, _extract_helm_chart_versions_memory_efficient  *)
(***************************************************************************)
\* the longest event stream and the deepest nesting the model draws
MaxEvents == 7
MaxDepth == 3

STATE_SEARCH_ENTRIES == 0
STATE_WAIT_ENTRIES_VAL == 1
STATE_SEARCH_CHART == 2
STATE_WAIT_CHART_VAL == 3
STATE_CAPTURE_VALUE == 4

\* the events of yaml.parse that the loop tells apart; every other event
\* (stream, document, alias) is to the loop a scalar it does not look for
MappingStartEvent == [type |-> "MappingStartEvent", value |-> ""]
MappingEndEvent == [type |-> "MappingEndEvent", value |-> ""]
SequenceStartEvent == [type |-> "SequenceStartEvent", value |-> ""]
SequenceEndEvent == [type |-> "SequenceEndEvent", value |-> ""]
ScalarEvent(value) == [type |-> "ScalarEvent", value |-> value]
ScalarValues == {"entries", "nginx"}
ChartNames == {"nginx", "entries"}
YamlEvents ==
    {MappingStartEvent, MappingEndEvent, SequenceStartEvent, SequenceEndEvent}
        \cup {ScalarEvent(v) : v \in ScalarValues}
IsStart(event) == event \in {MappingStartEvent, SequenceStartEvent}
IsEnd(event) == event \in {MappingEndEvent, SequenceEndEvent}

\* what yaml.safe_load makes of the lines written to the temporary file
YamlList(items) == [tag |-> "list", items |-> items]
YamlDict(fields) == [tag |-> "dict", fields |-> fields]
YamlScalar == YamlStr("nginx")
EmptyList == YamlList(<<>>)
Named(name) == YamlDict(<<[key |-> "name", value |-> name], [key |-> "version", value |-> "1.2.3"]>>)
Unnamed == YamlDict(<<[key |-> "version", value |-> "1.2.3"]>>)
Loads ==
    {[raises |-> TRUE, data |-> YamlNull]} \cup
    {[raises |-> FALSE, data |-> d] :
        d \in {YamlNull, YamlScalar, Named("nginx"), EmptyList,
               YamlList(<<YamlScalar>>), YamlList(<<Unnamed>>),
               YamlList(<<EmptyList>>),
               YamlList(<<Named("nginx")>>), YamlList(<<Named("redis"), Named("nginx")>>),
               YamlList(<<Named("nginx"), Named("redis")>>),
               YamlList(<<Named("entries")>>)}}

\* data[0]["name"]: IndexError of an empty list, TypeError of an element
\* that is a str or a list, KeyError of a dict without the key
Subscript0Name(data) ==
    IF data.items = <<>> THEN [raises |-> TRUE, value |-> ""]
    ELSE IF data.items[1].tag # "dict" THEN [raises |-> TRUE, value |-> ""]
    ELSE LET named == {k \in DOMAIN data.items[1].fields : data.items[1].fields[k].key = "name"}
         IN  IF named = {} THEN [raises |-> TRUE, value |-> ""]
             ELSE [raises |-> FALSE,
                   value |-> data.items[1].fields[CHOOSE k \in named : TRUE].value]

\* lines 384-395: the load of the temporary file and what is returned
LoadedAnyName(load, chart_name) ==
    IF load.raises THEN EmptyList
    ELSE IF load.data.tag = "list"
    THEN IF Subscript0Name(load.data).raises THEN EmptyList ELSE load.data
    ELSE EmptyList
Loaded(load, chart_name) ==
    IF load.raises THEN EmptyList
    ELSE IF load.data.tag = "list"
    THEN LET name == Subscript0Name(load.data)
         IN  IF name.raises THEN EmptyList
             ELSE IF name.value # chart_name THEN EmptyList
             ELSE load.data
    ELSE EmptyList

\* the call: the events read so far, the containers open (the innermost
\* last), the locals of the first pass, and where the function is.  The
\* mark of an event is its place in the stream, counted from 0 as the lines
\* of the file are
ScanCall(chart_name) ==
    [at |-> "events", chart_name |-> chart_name, events |-> <<>>, open |-> <<>>,
     state |-> STATE_SEARCH_ENTRIES, depth |-> 0,
     entries_depth |-> -1, target_seq_depth |-> -1,
     start_line |-> -1, end_line |-> -1, why |-> "", returned |-> None]
ScanReturned(s, why, value) == [s EXCEPT !.at = "returned", !.why = why, !.returned = <<value>>]

\* lines 321-345 without the depth of line 333: a state machine that takes
\* the chart name wherever it stands
StateMachineAnyDepth(s, event, depth, line) ==
    IF s.state = STATE_SEARCH_ENTRIES
    THEN IF event = ScalarEvent("entries")
         THEN [s EXCEPT !.depth = depth, !.state = STATE_WAIT_ENTRIES_VAL]
         ELSE [s EXCEPT !.depth = depth]
    ELSE IF s.state = STATE_WAIT_ENTRIES_VAL
    THEN IF event = MappingStartEvent
         THEN [s EXCEPT !.depth = depth, !.entries_depth = depth,
                        !.state = STATE_SEARCH_CHART]
         ELSE [s EXCEPT !.depth = depth]
    ELSE IF s.state = STATE_SEARCH_CHART
    THEN IF event = ScalarEvent(s.chart_name)
         THEN [s EXCEPT !.depth = depth, !.state = STATE_WAIT_CHART_VAL]
         ELSE IF event = MappingEndEvent /\ depth < s.entries_depth
         THEN ScanReturned([s EXCEPT !.depth = depth], "left entries", EmptyList)
         ELSE [s EXCEPT !.depth = depth]
    ELSE IF s.state = STATE_WAIT_CHART_VAL
    THEN IF event = SequenceStartEvent
         THEN [s EXCEPT !.depth = depth, !.start_line = line,
                        !.target_seq_depth = depth, !.state = STATE_CAPTURE_VALUE]
         ELSE [s EXCEPT !.depth = depth]
    ELSE [s EXCEPT !.depth = depth]

\* lines 321-345: the state machine, on an event that did not end the loop
StateMachine(s, event, depth, line) ==
    IF s.state = STATE_SEARCH_ENTRIES
    THEN IF event = ScalarEvent("entries")
         THEN [s EXCEPT !.depth = depth, !.state = STATE_WAIT_ENTRIES_VAL]
         ELSE [s EXCEPT !.depth = depth]
    ELSE IF s.state = STATE_WAIT_ENTRIES_VAL
    THEN IF event = MappingStartEvent
         THEN [s EXCEPT !.depth = depth, !.entries_depth = depth,
                        !.state = STATE_SEARCH_CHART]
         ELSE [s EXCEPT !.depth = depth]
    ELSE IF s.state = STATE_SEARCH_CHART
    THEN IF event = ScalarEvent(s.chart_name) /\ depth = s.entries_depth
         THEN [s EXCEPT !.depth = depth, !.state = STATE_WAIT_CHART_VAL]
         ELSE IF event = MappingEndEvent /\ depth < s.entries_depth
         THEN ScanReturned([s EXCEPT !.depth = depth], "left entries", EmptyList)
         ELSE [s EXCEPT !.depth = depth]
    ELSE IF s.state = STATE_WAIT_CHART_VAL
    THEN IF event = SequenceStartEvent
         THEN [s EXCEPT !.depth = depth, !.start_line = line,
                        !.target_seq_depth = depth, !.state = STATE_CAPTURE_VALUE]
         ELSE [s EXCEPT !.depth = depth]
    ELSE [s EXCEPT !.depth = depth]

\* lines 308-345: the body of the loop for one event
LoopEvent(s, event, line) ==
    LET depth == IF IsStart(event) THEN s.depth + 1
                 ELSE IF IsEnd(event) THEN s.depth - 1
                 ELSE s.depth
    IN  IF IsEnd(event) /\ s.state = STATE_CAPTURE_VALUE /\ depth < s.target_seq_depth
        THEN [s EXCEPT !.depth = depth, !.end_line = line, !.at = "lines"]
        ELSE StateMachine(s, event, depth, line)

\* the streams are well nested: an end event closes the innermost open
\* container, and it is of its kind
WellNested(open, event) ==
    /\ event = MappingEndEvent => open # <<>> /\ open[Len(open)] = MappingStartEvent
    /\ event = SequenceEndEvent => open # <<>> /\ open[Len(open)] = SequenceStartEvent
    /\ IsStart(event) => Len(open) < MaxDepth
Opened(open, event) ==
    IF IsStart(event) THEN Append(open, event)
    ELSE IF IsEnd(event) THEN SubSeq(open, 1, Len(open) - 1)
    ELSE open

\* the loop takes the next event of the stream
ScanEvent(event) ==
    /\ scan # Idle
    /\ scan.at = "events"
    /\ Len(scan.events) < MaxEvents
    /\ WellNested(scan.open, event)
    /\ scan' = LoopEvent([scan EXCEPT !.events = Append(@, event),
                                      !.open = Opened(@, event)],
                         event, Len(scan.events))
    /\ UNCHANGED <<versionVars, sel, disp, ptag, helm, gh>>

\* the stream ends with every container closed and the loop falls through;
\* lines 350-351
ScanEnd ==
    /\ scan # Idle
    /\ scan.at = "events"
    /\ scan.open = <<>>
    /\ scan' = IF scan.start_line = -1 THEN ScanReturned(scan, "not started", EmptyList)
               ELSE [scan EXCEPT !.at = "lines"]
    /\ UNCHANGED <<versionVars, sel, disp, ptag, helm, gh>>

\* opening the file or the next event raises; lines 346-348
ScanError ==
    /\ scan # Idle
    /\ scan.at = "events"
    /\ scan' = ScanReturned(scan, "stream", EmptyList)
    /\ UNCHANGED <<versionVars, sel, disp, ptag, helm, gh>>

\* lines 353-395 after a loop left by break: reading the lines raises, or
\* no line lies between the two marks, or the lines are written to the
\* temporary file, which is created, and loaded
ScanLoad(lines, load) ==
    /\ scan # Idle
    /\ scan.at = "lines"
    /\ scan' = IF lines = "raises" THEN ScanReturned(scan, "lines", EmptyList)
               ELSE IF lines = "none" THEN ScanReturned(scan, "no lines", EmptyList)
               ELSE ScanReturned([scan EXCEPT !.why = ""],
                             IF load.raises THEN "fragment"
                             ELSE IF load.data.tag # "list" THEN "not a list"
                             ELSE IF Subscript0Name(load.data).raises THEN "no name"
                             ELSE IF Subscript0Name(load.data).value # scan.chart_name
                             THEN "other name"
                             ELSE "found",
                             Loaded(load, scan.chart_name))
    /\ UNCHANGED <<versionVars, sel, disp, ptag, helm, gh>>

InitScan ==
    /\ form = <<>> /\ input = <<>> /\ obj = <<>> /\ text = <<>> /\ back = <<>>
    /\ sel = Idle /\ disp = Idle /\ ptag = Idle /\ helm = Idle /\ gh = Idle
    /\ \E chart_name \in ChartNames : scan = ScanCall(chart_name)

NextScan ==
    \/ \E event \in YamlEvents : ScanEvent(event)
    \/ ScanEnd
    \/ ScanError
    \/ \E lines \in {"raises", "none", "some"}, load \in Loads : ScanLoad(lines, load)

SpecScan == InitScan /\ [][NextScan]_vars

\* ------------------------------------------------------------------------
\* Claims about _extract_helm_chart_versions_memory_efficient
\* ------------------------------------------------------------------------
\* the places of a stream, told from its events alone: how deep the stream
\* is after event i, whether event i stands directly in the container that
\* event j opens, and the event that closes the container that event j opens
Starts(events, i) == {k \in 1..i : IsStart(events[k])}
Ends(events, i) == {k \in 1..i : IsEnd(events[k])}
DepthAfter(events, i) == Cardinality(Starts(events, i)) - Cardinality(Ends(events, i))
DirectlyIn(events, j, i) ==
    /\ j < i
    /\ \A k \in j..(i - 1) : DepthAfter(events, k) >= DepthAfter(events, j)
    /\ DepthAfter(events, i - 1) = DepthAfter(events, j)
Balanced(events, j, e) ==
    Cardinality(Starts(events, e) \ Starts(events, j - 1))
        = Cardinality(Ends(events, e) \ Ends(events, j - 1))
First(S) == IF S = {} THEN 0 ELSE CHOOSE i \in S : \A k \in S : i <= k
CloseOf(events, j) == First({e \in (j + 1)..Len(events) : Balanced(events, j, e)})

\* the first scalar 'entries', the first mapping that opens after it, the
\* first scalar chart_name that stands directly in that mapping, the first
\* sequence that opens after it, and the event that closes that sequence
EntriesAt(s) == First({i \in DOMAIN s.events : s.events[i] = ScalarEvent("entries")})
EntriesMapAt(s) ==
    IF EntriesAt(s) = 0 THEN 0
    ELSE First({i \in DOMAIN s.events : i > EntriesAt(s) /\ s.events[i] = MappingStartEvent})
ChartAt(s) ==
    IF EntriesMapAt(s) = 0 THEN 0
    ELSE First({i \in DOMAIN s.events :
                   /\ s.events[i] = ScalarEvent(s.chart_name)
                   /\ DirectlyIn(s.events, EntriesMapAt(s), i)})
TargetSeqAt(s) ==
    IF ChartAt(s) = 0 THEN 0
    ELSE First({i \in DOMAIN s.events : i > ChartAt(s) /\ s.events[i] = SequenceStartEvent})
TargetEndAt(s) == IF TargetSeqAt(s) = 0 THEN 0 ELSE CloseOf(s.events, TargetSeqAt(s))
StateAt(s) ==
    IF EntriesAt(s) = 0 THEN STATE_SEARCH_ENTRIES
    ELSE IF EntriesMapAt(s) = 0 THEN STATE_WAIT_ENTRIES_VAL
    ELSE IF ChartAt(s) = 0 THEN STATE_SEARCH_CHART
    ELSE IF TargetSeqAt(s) = 0 THEN STATE_WAIT_CHART_VAL
    ELSE STATE_CAPTURE_VALUE

Forward ==
    scan # Idle /\ scan' # Idle => scan'.state \in {scan.state, scan.state + 1}
CaptureAtTarget ==
    scan # Idle =>
        /\ scan.state = StateAt(scan)
        /\ scan.start_line = TargetSeqAt(scan) - 1
        /\ scan.state = STATE_CAPTURE_VALUE <=> scan.start_line # -1
StopAtTargetEnd ==
    scan # Idle =>
        /\ scan.end_line = TargetEndAt(scan) - 1
        /\ scan.end_line # -1 =>
               /\ scan.at # "events"
               /\ Len(scan.events) = TargetEndAt(scan)
               /\ scan.events[TargetEndAt(scan)] = SequenceEndEvent
        /\ scan.state = STATE_CAPTURE_VALUE /\ TargetEndAt(scan) = 0 =>
               scan.at = "events" \/ scan.why = "stream"

\* C29: over a well-nested event stream the state of the first pass goes
\* from each state to itself or to the next one; capture starts at the
\* first sequence that opens after the first scalar chart_name standing
\* directly in the entries mapping, and nowhere else; and the loop is left
\* at the event that closes that sequence, not at an end event inside it
C29_Scanner == [][Forward]_vars /\ [](CaptureAtTarget /\ StopAtTargetEnd)

\* the loop has been left at the end of a captured sequence that holds a
\* container of its own
C29_Witness ==
    /\ scan # Idle
    /\ scan.at = "lines"
    /\ scan.end_line = Len(scan.events) - 1
    /\ \E k \in DOMAIN scan.events :
           /\ k > TargetSeqAt(scan)
           /\ k < TargetEndAt(scan)
           /\ IsEnd(scan.events[k])

\* capture has started after a chart name one level deeper was passed over
DeeperPassed ==
    /\ scan # Idle
    /\ scan.state = STATE_CAPTURE_VALUE
    /\ \E k \in DOMAIN scan.events :
           /\ k > EntriesMapAt(scan)
           /\ k < ChartAt(scan)
           /\ scan.events[k] = ScalarEvent(scan.chart_name)

\* the function has returned value
ScanGave(value) == scan.at = "returned" /\ scan.returned = <<value>>
FirstNamed(data, name) ==
    /\ data.tag = "list"
    /\ data.items # <<>>
    /\ data.items[1].tag = "dict"
    /\ \E k \in DOMAIN data.items[1].fields :
           data.items[1].fields[k] = [key |-> "name", value |-> name]
\* the mapping taken for entries has been closed and no chart_name stood
\* directly in it
LeftEntries(s) ==
    /\ EntriesMapAt(s) # 0
    /\ ChartAt(s) = 0
    /\ CloseOf(s.events, EntriesMapAt(s)) # 0

Found ==
    /\ scan # Idle
    /\ scan.why = "found"
    /\ scan.returned # <<EmptyList>>

=============================================================================
